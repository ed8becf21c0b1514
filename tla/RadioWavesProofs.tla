-------------------------- MODULE RadioWavesProofs --------------------------
(***************************************************************************)
(* Proofs about the radio waves emulator, for any deployment, any number   *)
(* of clients of each kind and any size of the sockets' buffers: its types *)
(* and who owns what is buffered, why it goes down, that it is a medium as *)
(* long as no man in the middle is there, and that it keeps the messages   *)
(* of a sender in order and loses none of them on the way to a receiver    *)
(* that listens, the man in the middle among them.                         *)
(***************************************************************************)
EXTENDS RadioOrder, SelectingProofs

-----------------------------------------------------------------------------
(* Constants.                                                              *)

\* A port's clients are those of one kind.
LEMMA PortsApart ==
    /\ \A c \in Clients : PortOf(c) \in Ports
    /\ \A c \in Clients : PortOf(c) \in socks <=> c \in Boots \cup FaaClients
    /\ \A c \in Clients : PortOf(c) = MITM <=> c \in MitmClients
    /\ \A c \in Clients : PortOf(c) = PROBE <=> c \in ProbeClients
    /\ \A c \in Clients : PortOf(c) = RECVR <=> c \in RecvrClients
    /\ \A c \in Boots : PortOf(c) = IdOf[c] /\ IdOf[c] \in Devices
    /\ \A c \in FaaClients : PortOf(c) = FAA_ID
    /\ socks \cap {MITM, PROBE, RECVR} = {}
    /\ MITM # PROBE /\ MITM # RECVR /\ PROBE # RECVR
<1>1. socks \cap {MITM, PROBE, RECVR} = {}
  BY RadioAssumption DEF socks, MITM, PROBE, RECVR, FAA_ID
<1>2. MITM # PROBE /\ MITM # RECVR /\ PROBE # RECVR BY DEF MITM, PROBE, RECVR
<1>3. \A c \in Boots : PortOf(c) = IdOf[c] /\ IdOf[c] \in Devices
  BY ScewlAssumption, RadioAssumption DEF PortOf
<1>4. \A c \in FaaClients : PortOf(c) = FAA_ID BY RadioAssumption DEF PortOf
<1>5. \A c \in MitmClients : PortOf(c) = MITM BY RadioAssumption DEF PortOf
<1>6. \A c \in ProbeClients : PortOf(c) = PROBE BY RadioAssumption DEF PortOf
<1>7. \A c \in RecvrClients : PortOf(c) = RECVR BY RadioAssumption DEF PortOf
<1>8. \A c \in Boots \cup FaaClients : PortOf(c) \in socks BY <1>3, <1>4 DEF socks
<1> QED BY <1>1, <1>2, <1>3, <1>4, <1>5, <1>6, <1>7, <1>8 DEF Clients, Ports

\* A packet is one that its writer can write.
LEMMA PacketIs ==
    \A m \in Packet :
        /\ m.data[1] \in Boots \cup FaaClients
        /\ m.tgt \in SedTargets \cup FaaTargets
        /\ m.src \in Devices \cup {FAA_ID}
<1> SUFFICES ASSUME NEW m \in Packet
             PROVE  /\ m.data[1] \in Boots \cup FaaClients
                    /\ m.tgt \in SedTargets \cup FaaTargets
                    /\ m.src \in Devices \cup {FAA_ID}
  OBVIOUS
<1>1. CASE \E b \in Boots : m \in Said(b, IdOf[b], SedTargets)
  <2>1. PICK b \in Boots : m \in Said(b, IdOf[b], SedTargets) BY <1>1
  <2>2. m.data \in {b} \X (1..MaxSent[b]) /\ m.tgt \in SedTargets /\ m.src = IdOf[b]
    BY <2>1 DEF Said
  <2> QED BY <2>2, PortsApart
<1>2. CASE \E f \in FaaClients : m \in Said(f, FAA_ID, FaaTargets)
  <2>1. PICK f \in FaaClients : m \in Said(f, FAA_ID, FaaTargets) BY <1>2
  <2>2. m.data \in {f} \X (1..MaxSent[f]) /\ m.tgt \in FaaTargets /\ m.src = FAA_ID
    BY <2>1 DEF Said
  <2> QED BY <2>2
<1> QED BY <1>1, <1>2 DEF Packet

\* Bytes of the side channel are no packet.
LEMMA TraceIsNoPacket == Trace \notin Packet
<1>1. RECVR \notin Ids
  BY RadioAssumption DEF Ids, RECVR, BRDCST_ID, SSS_ID, FAA_ID
<1> QED BY <1>1, PacketIs, RadioAssumption DEF Trace, packet

-----------------------------------------------------------------------------
(* The invariant.                                                          *)

Bytes == Packet \cup {Trace}

SocketTypes ==
    /\ csock \in [Ports -> Clients \cup {None}]
    /\ waiting \in [Ports -> Seq(Clients)]
    /\ \A p \in Ports : csock[p] # None => PortOf(csock[p]) = p
    /\ \A p \in Ports : \A k \in DOMAIN waiting[p] : PortOf(waiting[p][k]) = p

UpTypes ==
    /\ up \in [Clients -> Seq(Bytes)]
    /\ \A c \in Clients : Len(up[c]) <= Cap
    /\ \A c \in Clients \ ProbeClients : up[c] \in Seq(Packet)
DownTypes ==
    /\ down \in [Clients -> Seq(Bytes)]
    /\ \A c \in Clients : Len(down[c]) <= Cap
    /\ \A c \in Clients \ RecvrClients : down[c] \in Seq(Packet)
BufTypes == buf \in [Ports -> Seq(Packet)]

ClientTypes ==
    /\ rfLink \in [Clients -> {"unused", "open", "closed"}]
    /\ sent \in [Clients -> Nat] /\ \A c \in Clients : sent[c] \in 0..MaxSent[c]
    /\ inHand \in [MitmClients -> Packet \cup {NoPacket}]

LocalTypes ==
    /\ pc \in {"poll", "recvr", "read", "mitm", "forward", "mitmRead", "send", "exited"}
    /\ todo \in Seq(socks) /\ hearers \in Seq(socks)
    /\ port \in socks \cup {None}
    /\ msgs \in Seq(Packet) /\ fwd \in Seq(Packet) /\ recvd \in Seq(Packet)
    /\ msg \in Packet \cup {NoPacket}
    /\ sc \in {None, "empty", "data"}
    /\ pc = "read" => port \in socks
    /\ pc = "forward" => fwd # <<>>
    /\ pc = "send" => hearers # <<>> /\ msg \in Packet

Types == SocketTypes /\ UpTypes /\ DownTypes /\ BufTypes /\ ClientTypes /\ LocalTypes

LEMMA TypesSuffice == Types => TypeOK
<1> SUFFICES ASSUME Types PROVE TypeOK OBVIOUS
<1>1. ASSUME NEW c \in Clients
      PROVE  /\ Len(up[c]) <= Cap /\ Len(down[c]) <= Cap
             /\ \A i \in DOMAIN up[c] : up[c][i] \in Packet \cup {Trace}
             /\ \A i \in DOMAIN down[c] : down[c][i] \in Packet \cup {Trace}
  <2>1. up[c] \in Seq(Bytes) /\ down[c] \in Seq(Bytes) BY DEF Types, UpTypes, DownTypes
  <2> QED BY <2>1 DEF Types, UpTypes, DownTypes, Bytes
<1>2. \A p \in Ports : \A i \in DOMAIN buf[p] : buf[p][i] \in Packet
  BY DEF Types, BufTypes
<1>3. \A seq \in {todo, hearers} : \A i \in DOMAIN seq : seq[i] \in socks
  BY DEF Types, LocalTypes
<1>4. \A seq \in {msgs, fwd, recvd} : \A i \in DOMAIN seq : seq[i] \in Packet
  BY DEF Types, LocalTypes
<1> QED BY <1>1, <1>2, <1>3, <1>4
        DEF Types, TypeOK, ClientTypes, LocalTypes, SocketTypes

LEMMA InitTypes == Init => Types
<1> SUFFICES ASSUME Init PROVE Types OBVIOUS
<1>1. SocketTypes BY DEF Init, SocketTypes
<1>2. UpTypes /\ DownTypes /\ BufTypes
  BY RadioAssumption DEF Init, UpTypes, DownTypes, BufTypes
<1>3. ClientTypes BY RadioAssumption DEF Init, ClientTypes
<1>4. LocalTypes BY DEF Init, LocalTypes
<1> QED BY <1>1, <1>2, <1>3, <1>4 DEF Types

-----------------------------------------------------------------------------
(* Class Sock.                                                             *)

LEMMA Connection ==
    ASSUME SocketTypes, NEW p \in Ports
    PROVE  /\ conn(p) \in Clients \cup {None}
           /\ conn(p) # None => PortOf(conn(p)) = p
<1>1. CASE csock[p] # None BY <1>1 DEF conn, SocketTypes
<1>2. CASE csock[p] = None /\ waiting[p] # <<>>
  <2>1. waiting[p] \in Seq(Clients) BY DEF SocketTypes
  <2>2. Head(waiting[p]) \in Clients /\ Head(waiting[p]) = waiting[p][1] /\ 1 \in DOMAIN waiting[p]
    BY <1>2, <2>1, HeadTailProperties
  <2>3. conn(p) = Head(waiting[p]) BY <1>2 DEF conn
  <2> QED BY <2>2, <2>3 DEF SocketTypes
<1>3. CASE csock[p] = None /\ waiting[p] = <<>> BY <1>3 DEF conn
<1> QED BY <1>1, <1>2, <1>3

LEMMA KeepTyped ==
    ASSUME SocketTypes, NEW p \in Ports, NEW c \in {None, conn(p)}, Keep(p, c)
    PROVE  SocketTypes'
<1>1. c \in Clients \cup {None} /\ (c # None => PortOf(c) = p) BY Connection
<1>2. csock' \in [Ports -> Clients \cup {None}] BY <1>1 DEF Keep, SocketTypes
<1>3. \A q \in Ports : csock'[q] = IF q = p THEN c ELSE csock[q] BY DEF Keep, SocketTypes
<1>4. \A q \in Ports : csock'[q] # None => PortOf(csock'[q]) = q
  BY <1>1, <1>3 DEF SocketTypes
<1>5. ASSUME NEW q \in Ports
      PROVE  /\ waiting'[q] \in Seq(Clients)
             /\ \A k \in DOMAIN waiting'[q] : PortOf(waiting'[q][k]) = q
  <2>1. waiting[q] \in Seq(Clients) /\ \A k \in DOMAIN waiting[q] : PortOf(waiting[q][k]) = q
    BY DEF SocketTypes
  <2>2. CASE q = p /\ csock[p] = None /\ waiting[p] # <<>>
    <3>1. waiting'[q] = Tail(waiting[q]) BY <2>2 DEF Keep, SocketTypes
    <3>2. Tail(waiting[q]) \in Seq(Clients) /\ Len(Tail(waiting[q])) = Len(waiting[q]) - 1
          /\ \A k \in 1..Len(Tail(waiting[q])) : Tail(waiting[q])[k] = waiting[q][k + 1]
      BY <2>1, <2>2, HeadTailProperties
    <3> QED BY <2>1, <3>1, <3>2
  <2>3. CASE ~(q = p /\ csock[p] = None /\ waiting[p] # <<>>)
    <3>1. waiting'[q] = waiting[q] BY <2>3 DEF Keep, SocketTypes
    <3> QED BY <2>1, <3>1
  <2> QED BY <2>2, <2>3
<1>6. waiting' \in [Ports -> Seq(Clients)] BY <1>5 DEF Keep, SocketTypes
<1> QED BY <1>2, <1>4, <1>5, <1>6 DEF SocketTypes

LEMMA CloseTyped ==
    ASSUME SocketTypes, UpTypes, DownTypes, BufTypes, NEW p \in Ports, close(p)
    PROVE  SocketTypes' /\ UpTypes' /\ DownTypes' /\ BufTypes'
<1>1. SocketTypes' BY KeepTyped DEF close
<1>2. BufTypes' BY DEF close, BufTypes
<1>3. UpTypes' /\ DownTypes' BY DEF close, UpTypes, DownTypes
<1> QED BY <1>1, <1>2, <1>3

\* What one recv leaves in the socket and takes from it, for the bytes of any
\* set S that the client writes.
LEMMA TakenTyped ==
    ASSUME NEW S, NEW p \in Ports, up[conn(p)] \in Seq(S)
    PROVE  /\ SubSeq(up[conn(p)], 1, taken(p)) \in Seq(S)
           /\ SubSeq(up[conn(p)], taken(p) + 1, Len(up[conn(p)])) \in Seq(S)
           /\ Len(SubSeq(up[conn(p)], taken(p) + 1, Len(up[conn(p)]))) <= Len(up[conn(p)])
<1> DEFINE s == up[conn(p)]
<1>1. taken(p) \in 0..Len(s) BY RadioAssumption DEF taken
<1>2. SubSeq(s, 1, taken(p)) \in Seq(S)
  BY <1>1, SubSeqProperties, \A i \in 1..taken(p) : s[i] \in S
<1>3. SubSeq(s, taken(p) + 1, Len(s)) \in Seq(S)
  BY <1>1, SubSeqProperties, \A i \in (taken(p) + 1)..Len(s) : s[i] \in S
<1>4. Len(SubSeq(s, taken(p) + 1, Len(s))) <= Len(s)
  BY <1>1, SubSeqProperties
<1> QED BY <1>2, <1>3, <1>4

LEMMA RecvTyped ==
    ASSUME SocketTypes, UpTypes, DownTypes, NEW p \in Ports, active(p), Recv(p)
    PROVE  SocketTypes' /\ UpTypes' /\ DownTypes'
<1>1. SocketTypes' BY KeepTyped DEF Recv
<1>2. DownTypes' BY DEF Recv, DownTypes
<1>3. conn(p) \in Clients BY Connection DEF active
<1>4. up' = [up EXCEPT ![conn(p)] = SubSeq(@, taken(p) + 1, Len(@))] BY DEF Recv
<1>5. /\ up'[conn(p)] \in Seq(Bytes) /\ Len(up'[conn(p)]) <= Cap
      /\ conn(p) \notin ProbeClients => up'[conn(p)] \in Seq(Packet)
  <2>1. up'[conn(p)] = SubSeq(up[conn(p)], taken(p) + 1, Len(up[conn(p)]))
    BY <1>3, <1>4 DEF UpTypes
  <2>2. up[conn(p)] \in Seq(Bytes) /\ Len(up[conn(p)]) <= Cap
        /\ (conn(p) \notin ProbeClients => up[conn(p)] \in Seq(Packet))
    BY <1>3 DEF UpTypes
  <2>3. up'[conn(p)] \in Seq(Bytes) /\ Len(up'[conn(p)]) <= Len(up[conn(p)])
    BY <2>1, <2>2, TakenTyped
  <2>4. conn(p) \notin ProbeClients => up'[conn(p)] \in Seq(Packet)
    BY <2>1, <2>2, TakenTyped
  <2>5. Len(up'[conn(p)]) \in Nat /\ Len(up[conn(p)]) \in Nat /\ Cap \in Nat
    BY <2>2, <2>3, RadioAssumption
  <2>6. Len(up'[conn(p)]) <= Cap BY <2>2, <2>3, <2>5
  <2> QED BY <2>3, <2>4, <2>6
<1>6. \A c \in Clients : c # conn(p) => up'[c] = up[c] BY <1>4 DEF UpTypes
<1>7. up' \in [Clients -> Seq(Bytes)] BY <1>3, <1>4, <1>5 DEF UpTypes
<1>8. UpTypes' BY <1>3, <1>5, <1>6, <1>7 DEF UpTypes
<1> QED BY <1>1, <1>2, <1>8

\* Packets only are read from the antennas and from the man in the middle.
LEMMA FilledTyped ==
    ASSUME SocketTypes, UpTypes, BufTypes, NEW p \in socks \cup {MITM}, active(p)
    PROVE  /\ filled(p) \in Seq(Packet)
           /\ filled(p) # <<>> => Head(filled(p)) \in Packet /\ Tail(filled(p)) \in Seq(Packet)
<1>1. p \in Ports BY DEF Ports
<1>2. conn(p) \in Clients /\ conn(p) \notin ProbeClients
  BY <1>1, Connection, PortsApart DEF active
<1>3. up[conn(p)] \in Seq(Packet) BY <1>2 DEF UpTypes
<1>4. SubSeq(up[conn(p)], 1, taken(p)) \in Seq(Packet) BY <1>1, <1>3, TakenTyped
<1>5. filled(p) \in Seq(Packet) BY <1>1, <1>4 DEF filled, BufTypes
<1> QED BY <1>5

LEMMA ReadMsgTyped ==
    ASSUME SocketTypes, UpTypes, DownTypes, BufTypes,
           NEW p \in socks \cup {MITM}, NEW m, ReadMsg(p, m)
    PROVE  SocketTypes' /\ UpTypes' /\ DownTypes' /\ BufTypes' /\ m \in Packet
<1>1. p \in Ports BY DEF Ports
<1>2. active(p) /\ Recv(p) BY DEF ReadMsg
<1>3. SocketTypes' /\ UpTypes' /\ DownTypes' BY <1>1, <1>2, RecvTyped
<1>4. m \in Packet /\ Tail(filled(p)) \in Seq(Packet) BY <1>2, FilledTyped DEF ReadMsg
<1>5. BufTypes' BY <1>1, <1>4 DEF ReadMsg, BufTypes
<1> QED BY <1>3, <1>4, <1>5

LEMMA ReadNoneTyped ==
    ASSUME SocketTypes, UpTypes, DownTypes, BufTypes, NEW p \in Ports, ReadNone(p)
    PROVE  SocketTypes' /\ UpTypes' /\ DownTypes' /\ BufTypes'
<1>1. CASE ~active(p) /\ UNCHANGED sockVars
  BY <1>1 DEF sockVars, SocketTypes, UpTypes, DownTypes, BufTypes
<1>2. CASE close(p) BY <1>2, CloseTyped
<1>3. CASE active(p) /\ Recv(p) /\ UNCHANGED buf BY <1>3, RecvTyped DEF BufTypes
<1> QED BY <1>1, <1>2, <1>3 DEF ReadNone

LEMMA SendMsgTyped ==
    ASSUME SocketTypes, UpTypes, DownTypes, BufTypes,
           NEW p \in Ports, NEW m \in Bytes, p # RECVR => m \in Packet, SendMsg(p, m)
    PROVE  SocketTypes' /\ UpTypes' /\ DownTypes' /\ BufTypes'
<1>1. CASE ~active(p) /\ UNCHANGED sockVars
  BY <1>1 DEF sockVars, SocketTypes, UpTypes, DownTypes, BufTypes
<1>2. CASE close(p) BY <1>2, CloseTyped
<1>3. CASE /\ active(p) /\ Len(down[conn(p)]) < Cap
           /\ down' = [down EXCEPT ![conn(p)] = Append(@, m)]
           /\ Keep(p, conn(p)) /\ UNCHANGED <<up, buf>>
  <2>1. conn(p) \in Clients /\ PortOf(conn(p)) = p BY <1>3, Connection DEF active
  <2>2. SocketTypes' BY <1>3, KeepTyped
  <2>3. UpTypes' /\ BufTypes' BY <1>3 DEF UpTypes, BufTypes
  <2>4. down'[conn(p)] = Append(down[conn(p)], m) BY <1>3, <2>1 DEF DownTypes
  <2>5. down[conn(p)] \in Seq(Bytes) BY <2>1 DEF DownTypes
  <2>6. down'[conn(p)] \in Seq(Bytes) /\ Len(down'[conn(p)]) <= Cap
    BY <1>3, <2>4, <2>5, RadioAssumption
  <2>7. conn(p) \notin RecvrClients => down'[conn(p)] \in Seq(Packet)
    BY <2>1, <2>4, PortsApart DEF DownTypes
  <2>8. \A c \in Clients : c # conn(p) => down'[c] = down[c] BY <1>3 DEF DownTypes
  <2>9. down' \in [Clients -> Seq(Bytes)] BY <1>3, <2>1, <2>6 DEF DownTypes
  <2>10. DownTypes' BY <2>1, <2>6, <2>7, <2>8, <2>9 DEF DownTypes
  <2> QED BY <2>2, <2>3, <2>10
<1> QED BY <1>1, <1>2, <1>3 DEF SendMsg

\* Asking whether a client is there touches the socket's connection only.
LEMMA KeepOnlyTyped ==
    ASSUME SocketTypes, NEW p \in Ports, Keep(p, conn(p))
    PROVE  SocketTypes'
BY KeepTyped

-----------------------------------------------------------------------------
(* Every step keeps the types.                                             *)

LEMMA StillTyped ==
    ASSUME Types
    PROVE  /\ UNCHANGED <<csock, waiting>> => SocketTypes'
           /\ UNCHANGED up => UpTypes'
           /\ UNCHANGED down => DownTypes'
           /\ UNCHANGED buf => BufTypes'
           /\ UNCHANGED clientVars => ClientTypes'
           /\ UNCHANGED <<pc, localVars>> => LocalTypes'
<1>1. UNCHANGED <<csock, waiting>> => SocketTypes' BY DEF Types, SocketTypes
<1>2. UNCHANGED up => UpTypes' BY DEF Types, UpTypes
<1>3. UNCHANGED down => DownTypes' BY DEF Types, DownTypes
<1>4. UNCHANGED buf => BufTypes' BY DEF Types, BufTypes
<1>5. UNCHANGED clientVars => ClientTypes' BY DEF Types, ClientTypes, clientVars
<1>6. UNCHANGED <<pc, localVars>> => LocalTypes' BY DEF Types, LocalTypes, localVars
<1> QED BY <1>1, <1>2, <1>3, <1>4, <1>5, <1>6

LEMMA PortsInPorts == socks \subseteq Ports /\ {MITM, PROBE, RECVR} \subseteq Ports
BY DEF Ports

LEMMA SockOrderTyped == sockOrder \in Seq(socks)
<1>1. DevOrder \in Seq(socks)
  <2>1. DevOrder \in Seq(Devices) /\ Devices \subseteq socks BY RadioAssumption DEF socks
  <2> QED BY <2>1
<1>2. FAA_ID \in socks BY DEF socks
<1> QED BY <1>1, <1>2 DEF sockOrder

LEMMA ProbeReadTyped == Types /\ ProbeRead => Types'
<1> SUFFICES ASSUME Types, ProbeRead PROVE Types' OBVIOUS
<1>1. ClientTypes' BY StillTyped DEF ProbeRead
<1>2. LocalTypes'
  BY SockOrderTyped DEF Types, LocalTypes, ProbeRead, AtPoll, close, Recv, Keep, sockVars
<1>3. SocketTypes' /\ UpTypes' /\ DownTypes' /\ BufTypes'
  <2> PROBE \in Ports BY PortsInPorts
  <2>1. CASE close(PROBE) BY <2>1, CloseTyped DEF Types
  <2>2. CASE active(PROBE) /\ Recv(PROBE) /\ UNCHANGED buf
    BY <2>2, RecvTyped, StillTyped DEF Types
  <2>3. CASE UNCHANGED sockVars BY <2>3, StillTyped DEF sockVars
  <2> QED BY <2>1, <2>2, <2>3 DEF ProbeRead
<1> QED BY <1>1, <1>2, <1>3 DEF Types

LEMMA RecvrSendTyped == Types /\ RecvrSend => Types'
<1> SUFFICES ASSUME Types, RecvrSend PROVE Types' OBVIOUS
<1>1. ClientTypes' BY StillTyped DEF RecvrSend
<1>2. LocalTypes' BY SockOrderTyped DEF Types, LocalTypes, RecvrSend
<1>3. SocketTypes' /\ UpTypes' /\ DownTypes' /\ BufTypes'
  <2> RECVR \in Ports /\ Trace \in Bytes BY PortsInPorts DEF Bytes
  <2>1. CASE UNCHANGED sockVars BY <2>1, StillTyped DEF sockVars
  <2>2. CASE Keep(RECVR, conn(RECVR)) /\ UNCHANGED <<up, down, buf>>
    BY <2>2, KeepOnlyTyped, StillTyped DEF Types
  <2>3. CASE SendMsg(RECVR, Trace) BY <2>3, SendMsgTyped DEF Types
  <2> QED BY <2>1, <2>2, <2>3 DEF RecvrSend
<1> QED BY <1>1, <1>2, <1>3 DEF Types

LEMMA PollPortTyped == Types /\ PollPort => Types'
<1> SUFFICES ASSUME Types, PollPort PROVE Types' OBVIOUS
<1>1. ClientTypes' /\ UpTypes' /\ DownTypes' /\ BufTypes' BY StillTyped DEF PollPort
<1>2. todo \in Seq(socks) /\ todo # <<>> BY DEF Types, LocalTypes, PollPort
<1>3. Head(todo) \in socks /\ Tail(todo) \in Seq(socks) BY <1>2
<1>4. LocalTypes' BY <1>3 DEF Types, LocalTypes, PollPort, AtPoll
<1>5. SocketTypes'
  <2> DEFINE p == Head(todo)
  <2>1. CASE active(p)
    <3>1. Keep(p, conn(p)) BY <2>1 DEF PollPort
    <3> QED BY <1>3, <3>1, KeepOnlyTyped, PortsInPorts DEF Types
  <2>2. CASE ~active(p) BY <2>2, StillTyped DEF PollPort
  <2> QED BY <2>1, <2>2
<1> QED BY <1>1, <1>4, <1>5 DEF Types

LEMMA ReadOneTyped == Types /\ ReadOne => Types'
<1> SUFFICES ASSUME Types, ReadOne PROVE Types' OBVIOUS
<1>1. ClientTypes' BY StillTyped DEF ReadOne
<1>2. port \in socks /\ port \in Ports /\ port \in socks \cup {MITM}
  BY PortsInPorts DEF Types, LocalTypes, ReadOne
<1>3. CASE /\ ReadMsg(port, Head(filled(port)))
           /\ msgs' = Append(msgs, Head(filled(port))) /\ UNCHANGED pc
  <2>1. /\ SocketTypes' /\ UpTypes' /\ DownTypes' /\ BufTypes'
        /\ Head(filled(port)) \in Packet
    BY <1>2, <1>3, ReadMsgTyped DEF Types
  <2>2. LocalTypes' BY <1>3, <2>1 DEF Types, LocalTypes, ReadOne
  <2> QED BY <1>1, <2>1, <2>2 DEF Types
<1>4. CASE ReadNone(port) /\ pc' = "mitm" /\ UNCHANGED msgs
  <2>1. SocketTypes' /\ UpTypes' /\ DownTypes' /\ BufTypes'
    BY <1>2, <1>4, ReadNoneTyped DEF Types
  <2>2. LocalTypes' BY <1>4 DEF Types, LocalTypes, ReadOne
  <2> QED BY <1>1, <2>1, <2>2 DEF Types
<1> QED BY <1>3, <1>4 DEF ReadOne

LEMMA MitmActiveTyped == Types /\ MitmActive => Types'
<1> SUFFICES ASSUME Types, MitmActive PROVE Types' OBVIOUS
<1>1. ClientTypes' /\ UpTypes' /\ DownTypes' /\ BufTypes' BY StillTyped DEF MitmActive
<1>2. LocalTypes' BY DEF Types, LocalTypes, MitmActive
<1>3. SocketTypes'
  <2>1. CASE Keep(MITM, conn(MITM)) BY <2>1, KeepOnlyTyped, PortsInPorts DEF Types
  <2>2. CASE UNCHANGED <<csock, waiting>> BY <2>2, StillTyped
  <2> QED BY <2>1, <2>2 DEF MitmActive
<1> QED BY <1>1, <1>2, <1>3 DEF Types

LEMMA ForwardOneTyped == Types /\ ForwardOne => Types'
<1> SUFFICES ASSUME Types, ForwardOne PROVE Types' OBVIOUS
<1>1. ClientTypes' BY StillTyped DEF ForwardOne
<1>2. fwd \in Seq(Packet) /\ fwd # <<>> BY DEF Types, LocalTypes, ForwardOne
<1>3. Head(fwd) \in Packet /\ Tail(fwd) \in Seq(Packet) BY <1>2
<1>4. SocketTypes' /\ UpTypes' /\ DownTypes' /\ BufTypes'
  BY <1>3, SendMsgTyped, PortsInPorts DEF Types, ForwardOne, Bytes
<1>5. LocalTypes' BY <1>3 DEF Types, LocalTypes, ForwardOne
<1> QED BY <1>1, <1>4, <1>5 DEF Types

LEMMA MitmReadOneTyped == Types /\ MitmReadOne => Types'
<1> SUFFICES ASSUME Types, MitmReadOne PROVE Types' OBVIOUS
<1>1. ClientTypes' BY StillTyped DEF MitmReadOne
<1>2. MITM \in Ports /\ MITM \in socks \cup {MITM} BY PortsInPorts
<1>3. CASE /\ ReadMsg(MITM, Head(filled(MITM)))
           /\ recvd' = Append(recvd, Head(filled(MITM))) /\ UNCHANGED <<pc, msgs>>
  <2>1. /\ SocketTypes' /\ UpTypes' /\ DownTypes' /\ BufTypes'
        /\ Head(filled(MITM)) \in Packet
    BY <1>2, <1>3, ReadMsgTyped DEF Types
  <2>2. LocalTypes' BY <1>3, <2>1 DEF Types, LocalTypes, MitmReadOne
  <2> QED BY <1>1, <2>1, <2>2 DEF Types
<1>4. CASE ReadNone(MITM) /\ pc' = "poll" /\ msgs' = forwarded /\ recvd' = <<>>
  <2>1. SocketTypes' /\ UpTypes' /\ DownTypes' /\ BufTypes'
    BY <1>2, <1>4, ReadNoneTyped DEF Types
  <2>2. forwarded \in Seq(Packet) BY DEF forwarded, Types, LocalTypes
  <2>3. LocalTypes' BY <1>4, <2>2 DEF Types, LocalTypes, MitmReadOne
  <2> QED BY <1>1, <2>1, <2>3 DEF Types
<1> QED BY <1>3, <1>4 DEF MitmReadOne

LEMMA RouteTyped == Types /\ Route => Types'
<1> SUFFICES ASSUME Types, Route PROVE Types' OBVIOUS
<1>1. ClientTypes' /\ SocketTypes' /\ UpTypes' /\ DownTypes' /\ BufTypes'
  BY StillTyped DEF Route, sockVars
<1>2. msgs \in Seq(Packet) /\ msgs # <<>> BY DEF Types, LocalTypes, Route
<1>3. Head(msgs) \in Packet /\ Tail(msgs) \in Seq(Packet) BY <1>2
<1>4. DevOrder \in Seq(socks) /\ DevOrder # <<>>
  <2>1. DevOrder \in Seq(Devices) /\ Devices \subseteq socks BY RadioAssumption DEF socks
  <2> QED BY <2>1, RadioAssumption
<1>5. hearers' \in Seq(socks) /\ (pc' = "send" => hearers' # <<>>) /\ pc' \in {"send", "exited"}
  <2> DEFINE m == Head(msgs)
  <2>1. CASE hearers' = DevOrder /\ pc' = "send" BY <1>4, <2>1
  <2>2. CASE m.tgt \in socks /\ hearers' = <<m.tgt>> /\ pc' = "send" BY <2>2
  <2>3. CASE pc' = "exited" /\ UNCHANGED hearers BY <2>3 DEF Types, LocalTypes
  <2> QED BY <2>1, <2>2, <2>3 DEF Route
<1>6. LocalTypes' BY <1>3, <1>5 DEF Types, LocalTypes, Route
<1> QED BY <1>1, <1>6 DEF Types

LEMMA SendOneTyped == Types /\ SendOne => Types'
<1> SUFFICES ASSUME Types, SendOne PROVE Types' OBVIOUS
<1>1. ClientTypes' BY StillTyped DEF SendOne
<1>2. hearers \in Seq(socks) /\ hearers # <<>> /\ msg \in Packet
  BY DEF Types, LocalTypes, SendOne
<1>3. Head(hearers) \in socks /\ Tail(hearers) \in Seq(socks) BY <1>2
<1>4. SocketTypes' /\ UpTypes' /\ DownTypes' /\ BufTypes'
  BY <1>2, <1>3, SendMsgTyped, PortsInPorts DEF Types, SendOne, Bytes
<1>5. LocalTypes' BY <1>3 DEF Types, LocalTypes, SendOne
<1> QED BY <1>1, <1>4, <1>5 DEF Types

LEMMA ConnectTyped == \A c \in Clients : Types /\ Connect(c) => Types'
<1> SUFFICES ASSUME Types, NEW c \in Clients, Connect(c) PROVE Types' OBVIOUS
<1>1. UpTypes' /\ DownTypes' /\ BufTypes' /\ LocalTypes' BY StillTyped DEF Connect
<1>2. ClientTypes' BY DEF Connect, Types, ClientTypes
<1>3. PortOf(c) \in Ports BY PortsApart
<1>4. ASSUME NEW q \in Ports
      PROVE  /\ waiting'[q] \in Seq(Clients)
             /\ \A k \in DOMAIN waiting'[q] : PortOf(waiting'[q][k]) = q
  <2>1. waiting[q] \in Seq(Clients) /\ \A k \in DOMAIN waiting[q] : PortOf(waiting[q][k]) = q
    BY DEF Types, SocketTypes
  <2>2. CASE q = PortOf(c)
    <3>1. waiting'[q] = Append(waiting[q], c) BY <2>2 DEF Connect, Types, SocketTypes
    <3> QED BY <2>1, <2>2, <3>1, AppendProperties
  <2>3. CASE q # PortOf(c)
    <3>1. waiting'[q] = waiting[q] BY <2>3 DEF Connect, Types, SocketTypes
    <3> QED BY <2>1, <3>1
  <2> QED BY <2>2, <2>3
<1>5. waiting' \in [Ports -> Seq(Clients)] BY <1>4 DEF Connect, Types, SocketTypes
<1>6. SocketTypes' BY <1>4, <1>5 DEF Connect, Types, SocketTypes
<1> QED BY <1>1, <1>2, <1>6 DEF Types

LEMMA WritesTyped ==
    ASSUME Types, NEW c \in Clients, NEW m \in Bytes, c \in ProbeClients \/ m \in Packet,
           Writes(c, m)
    PROVE  SocketTypes' /\ UpTypes' /\ DownTypes' /\ BufTypes' /\ LocalTypes'
<1>1. SocketTypes' /\ DownTypes' /\ BufTypes' /\ LocalTypes' BY StillTyped DEF Writes
<1>2. up[c] \in Seq(Bytes) /\ up'[c] = Append(up[c], m) BY DEF Writes, Types, UpTypes
<1>3. up'[c] \in Seq(Bytes) /\ Len(up'[c]) <= Cap BY <1>2, RadioAssumption DEF Writes
<1>4. c \notin ProbeClients => up'[c] \in Seq(Packet) BY <1>2 DEF Types, UpTypes
<1>5. \A e \in Clients : e # c => up'[e] = up[e] BY DEF Writes, Types, UpTypes
<1>6. up' \in [Clients -> Seq(Bytes)] BY <1>3 DEF Writes, Types, UpTypes
<1>7. UpTypes' BY <1>3, <1>4, <1>5, <1>6 DEF Types, UpTypes
<1> QED BY <1>1, <1>7

LEMMA ReadsTyped ==
    ASSUME Types, NEW c \in Clients, Reads(c)
    PROVE  SocketTypes' /\ UpTypes' /\ DownTypes' /\ BufTypes' /\ LocalTypes'
<1>1. SocketTypes' /\ UpTypes' /\ BufTypes' /\ LocalTypes' BY StillTyped DEF Reads
<1>2. down[c] \in Seq(Bytes) /\ down[c] # <<>> /\ down'[c] = Tail(down[c])
  BY DEF Reads, Types, DownTypes
<1>3. down'[c] \in Seq(Bytes) /\ Len(down'[c]) <= Cap
  <2>1. Len(down[c]) <= Cap /\ Cap \in Nat BY RadioAssumption DEF Types, DownTypes
  <2> QED BY <1>2, <2>1
<1>4. c \notin RecvrClients => down'[c] \in Seq(Packet)
  BY <1>2, HeadTailProperties DEF Types, DownTypes
<1>5. \A e \in Clients : e # c => down'[e] = down[e] BY DEF Reads, Types, DownTypes
<1>6. down' \in [Clients -> Seq(Bytes)] BY <1>3 DEF Reads, Types, DownTypes
<1>7. DownTypes' BY <1>3, <1>4, <1>5, <1>6 DEF Types, DownTypes
<1> QED BY <1>1, <1>7

\* What a client writes bears its name.
LEMMA MessageTyped ==
    ASSUME Types, NEW c \in Clients, sent[c] < MaxSent[c]
    PROVE  /\ c \in Boots => \A t \in SedTargets : packet(t, IdOf[c], <<c, sent[c] + 1>>) \in Packet
           /\ c \in FaaClients => \A t \in FaaTargets : packet(t, FAA_ID, <<c, sent[c] + 1>>) \in Packet
<1>1. sent[c] \in 0..MaxSent[c] /\ MaxSent[c] \in Nat
  BY RadioAssumption DEF Types, ClientTypes
<1>2. sent[c] + 1 \in 1..MaxSent[c] BY <1>1
<1>3. <<c, sent[c] + 1>> \in {c} \X (1..MaxSent[c]) BY <1>2
<1>4. ASSUME c \in Boots, NEW t \in SedTargets
      PROVE  packet(t, IdOf[c], <<c, sent[c] + 1>>) \in Packet
  <2>1. packet(t, IdOf[c], <<c, sent[c] + 1>>) \in Said(c, IdOf[c], SedTargets)
    BY <1>3, <1>4 DEF Said, packet
  <2> QED BY <1>4, <2>1 DEF Packet
<1>5. ASSUME c \in FaaClients, NEW t \in FaaTargets
      PROVE  packet(t, FAA_ID, <<c, sent[c] + 1>>) \in Packet
  <2>1. packet(t, FAA_ID, <<c, sent[c] + 1>>) \in Said(c, FAA_ID, FaaTargets)
    BY <1>3, <1>5 DEF Said, packet
  <2> QED BY <1>5, <2>1 DEF Packet
<1> QED BY <1>4, <1>5

LEMMA NewMessageTyped == \A c \in Clients : Types /\ NewMessage(c) => Types'
<1> SUFFICES ASSUME Types, NEW c \in Clients, NewMessage(c) PROVE Types' OBVIOUS
<1>1. sent'[c] = sent[c] + 1 /\ sent[c] < MaxSent[c]
  BY DEF NewMessage, Types, ClientTypes
<1>2. \E m \in Bytes : (c \in ProbeClients \/ m \in Packet) /\ Writes(c, m)
  <2>1. ASSUME c \in Boots, NEW t \in SedTargets, Writes(c, packet(t, IdOf[c], <<c, sent'[c]>>))
        PROVE  packet(t, IdOf[c], <<c, sent'[c]>>) \in Packet
    BY <1>1, <2>1, MessageTyped
  <2>2. ASSUME c \in FaaClients, NEW t \in FaaTargets, Writes(c, packet(t, FAA_ID, <<c, sent'[c]>>))
        PROVE  packet(t, FAA_ID, <<c, sent'[c]>>) \in Packet
    BY <1>1, <2>2, MessageTyped
  <2> QED BY <2>1, <2>2 DEF NewMessage, Bytes
<1>3. SocketTypes' /\ UpTypes' /\ DownTypes' /\ BufTypes' /\ LocalTypes'
  BY <1>2, WritesTyped
<1>4. ClientTypes'
  <2>1. UNCHANGED <<rfLink, inHand>> BY DEF NewMessage, Writes
  <2>2. sent[c] + 1 \in Nat /\ sent[c] + 1 \in 0..MaxSent[c]
    BY <1>1, RadioAssumption DEF Types, ClientTypes
  <2>3. sent' = [sent EXCEPT ![c] = sent[c] + 1] BY DEF NewMessage
  <2> QED BY <2>1, <2>2, <2>3 DEF Types, ClientTypes
<1> QED BY <1>3, <1>4 DEF Types

LEMMA ClientReadsTyped == \A c \in Clients : Types /\ ClientReads(c) => Types'
<1> SUFFICES ASSUME Types, NEW c \in Clients, ClientReads(c) PROVE Types' OBVIOUS
<1>1. SocketTypes' /\ UpTypes' /\ DownTypes' /\ BufTypes' /\ LocalTypes'
  BY ReadsTyped DEF ClientReads
<1>2. ClientTypes' BY DEF ClientReads, Reads, Types, ClientTypes
<1> QED BY <1>1, <1>2 DEF Types

LEMMA MitmTakesTyped == \A c \in Clients : Types /\ MitmTakes(c) => Types'
<1> SUFFICES ASSUME Types, NEW c \in Clients, MitmTakes(c) PROVE Types' OBVIOUS
<1>1. SocketTypes' /\ UpTypes' /\ DownTypes' /\ BufTypes' /\ LocalTypes'
  BY ReadsTyped DEF MitmTakes
<1>2. c \in MitmClients /\ c \notin RecvrClients BY RadioAssumption DEF MitmTakes
<1>3. Head(down[c]) \in Packet
  BY <1>2, HeadTailProperties DEF MitmTakes, Reads, Types, DownTypes
<1>4. ClientTypes' BY <1>3 DEF MitmTakes, Reads, Types, ClientTypes
<1> QED BY <1>1, <1>4 DEF Types

LEMMA MitmGivesTyped == \A c \in Clients : Types /\ MitmGives(c) => Types'
<1> SUFFICES ASSUME Types, NEW c \in Clients, MitmGives(c) PROVE Types' OBVIOUS
<1>1. inHand[c] \in Packet /\ inHand[c] \in Bytes
  BY DEF MitmGives, Types, ClientTypes, Bytes
<1>2. SocketTypes' /\ UpTypes' /\ DownTypes' /\ BufTypes' /\ LocalTypes'
  BY <1>1, WritesTyped DEF MitmGives
<1>3. ClientTypes' BY DEF MitmGives, Writes, Types, ClientTypes
<1> QED BY <1>2, <1>3 DEF Types

LEMMA HangUpTyped == \A c \in Clients : Types /\ HangUp(c) => Types'
<1> SUFFICES ASSUME Types, NEW c \in Clients, HangUp(c) PROVE Types' OBVIOUS
<1>1. SocketTypes' /\ UpTypes' /\ BufTypes' /\ LocalTypes' BY StillTyped DEF HangUp
<1>2. ClientTypes' BY DEF HangUp, Types, ClientTypes
<1>3. DownTypes' BY RadioAssumption DEF HangUp, Types, DownTypes
<1> QED BY <1>1, <1>2, <1>3 DEF Types

LEMMA NextTyped == Types /\ [Next]_vars => Types'
<1> SUFFICES ASSUME Types, [Next]_vars PROVE Types' OBVIOUS
<1>1. CASE Emulator
  BY <1>1, ProbeReadTyped, RecvrSendTyped, PollPortTyped, ReadOneTyped, MitmActiveTyped,
     ForwardOneTyped, MitmReadOneTyped, RouteTyped, SendOneTyped DEF Emulator
<1>2. CASE \E c \in Clients : Client(c)
  BY <1>2, ConnectTyped, HangUpTyped, NewMessageTyped, ClientReadsTyped, MitmTakesTyped,
     MitmGivesTyped DEF Client
<1>3. CASE UNCHANGED vars
  BY <1>3, StillTyped DEF vars, clientVars, localVars, Types
<1> QED BY <1>1, <1>2, <1>3 DEF Next

LEMMA SpecTyped == Spec => []Types
<1>1. Init => Types BY InitTypes
<1>2. Types /\ [Next]_vars => Types' BY NextTyped
<1> QED BY <1>1, <1>2, PTL DEF Spec

\* Every variable has its type: nothing but packets is read from an antenna and
\* sent on, no socket holds more than fits, a message the emulator sends on is
\* there and has a hearer left.
THEOREM TypeCorrect == Spec => []TypeOK
BY SpecTyped, TypesSuffice, PTL

-----------------------------------------------------------------------------
(* What is buffered.                                                       *)

\* A client's messages are in its own socket, and from there come into the
\* buffer of the antenna that has accepted it.
Ownership ==
    /\ \A c \in Radios : up[c] \in Seq(Own(c))
    /\ \A p \in socks : buf[p] \in Seq(Own(csock[p]))

LEMMA NothingOwned == \A s \in Seq(Own(None)) : s = <<>>
<1>1. Own(None) = {}
  BY RadioAssumption, PacketIs DEF Own, Clients
<1> QED BY <1>1

LEMMA OwnershipSuffices == Ownership => BufOwned
<1> SUFFICES ASSUME Ownership, NEW p \in socks, NEW i \in DOMAIN buf[p]
             PROVE  csock[p] = buf[p][i].data[1]
  BY DEF BufOwned
<1>1. buf[p] \in Seq(Own(csock[p])) BY DEF Ownership
<1>2. buf[p][i] \in Own(csock[p]) BY <1>1
<1> QED BY <1>2 DEF Own

LEMMA InitOwnership == Init => Ownership
<1> SUFFICES ASSUME Init PROVE Ownership OBVIOUS
<1>1. ASSUME NEW c \in Radios PROVE up[c] \in Seq(Own(c))
  BY DEF Init, Radios, Clients
<1>2. ASSUME NEW p \in socks PROVE buf[p] \in Seq(Own(csock[p]))
  BY DEF Init, Ports
<1> QED BY <1>1, <1>2 DEF Ownership

LEMMA StillOwned ==
    ASSUME Ownership, UNCHANGED <<up, buf, csock>>
    PROVE  Ownership'
BY DEF Ownership

\* An antenna without a client has nothing buffered, so the client it accepts
\* has nothing of another's.
LEMMA OwnedByConn ==
    ASSUME Ownership, NEW p \in socks
    PROVE  buf[p] \in Seq(Own(conn(p)))
<1>1. CASE csock[p] # None
  <2>1. conn(p) = csock[p] BY <1>1 DEF conn
  <2> QED BY <2>1 DEF Ownership
<1>2. CASE csock[p] = None
  <2>1. buf[p] = <<>> BY <1>2, NothingOwned DEF Ownership
  <2> QED BY <2>1
<1> QED BY <1>1, <1>2

LEMMA KeepOwned ==
    ASSUME Types, Ownership, NEW p \in Ports, Keep(p, conn(p)), UNCHANGED <<up, buf>>
    PROVE  Ownership'
<1>1. ASSUME NEW q \in socks PROVE buf'[q] \in Seq(Own(csock'[q]))
  <2>1. CASE q = p
    <3>1. csock'[q] = conn(q) BY <2>1 DEF Keep, Types, SocketTypes
    <3> QED BY <3>1, OwnedByConn
  <2>2. CASE q # p
    <3>1. csock'[q] = csock[q] BY <2>2, PortsInPorts DEF Keep, Types, SocketTypes
    <3> QED BY <3>1 DEF Ownership
  <2> QED BY <2>1, <2>2
<1> QED BY <1>1 DEF Ownership

LEMMA CloseOwned ==
    ASSUME Types, Ownership, NEW p \in Ports, close(p)
    PROVE  Ownership'
<1>1. ASSUME NEW q \in socks PROVE buf'[q] \in Seq(Own(csock'[q]))
  <2>1. CASE q = p BY <2>1 DEF close, Types, BufTypes
  <2>2. CASE q # p
    <3>1. csock'[q] = csock[q] /\ buf'[q] = buf[q]
      BY <2>2, PortsInPorts DEF close, Keep, Types, SocketTypes, BufTypes
    <3> QED BY <3>1 DEF Ownership
  <2> QED BY <2>1, <2>2
<1> QED BY <1>1 DEF Ownership, close

LEMMA RecvOwned ==
    ASSUME Types, Ownership, NEW p \in Ports, active(p), Recv(p),
           \A q \in socks \ {p} : buf'[q] = buf[q],
           p \in socks => buf'[p] \in Seq(Own(conn(p)))
    PROVE  Ownership'
<1>1. conn(p) \in Clients BY Connection DEF active, Types
<1>2. ASSUME NEW c \in Radios PROVE up'[c] \in Seq(Own(c))
  <2>1. up[c] \in Seq(Own(c)) BY DEF Ownership
  <2>2. CASE c = conn(p)
    <3>1. up'[c] = SubSeq(up[c], taken(p) + 1, Len(up[c]))
      BY <1>1, <2>2 DEF Recv, Types, UpTypes
    <3> QED BY <2>1, <2>2, <3>1, TakenTyped
  <2>3. CASE c # conn(p)
    <3>1. up'[c] = up[c] BY <2>3 DEF Recv, Types, UpTypes, Radios, Clients
    <3> QED BY <2>1, <3>1
  <2> QED BY <2>2, <2>3
<1>3. ASSUME NEW q \in socks PROVE buf'[q] \in Seq(Own(csock'[q]))
  <2>1. CASE q = p
    <3>1. csock'[q] = conn(q) BY <2>1 DEF Recv, Keep, Types, SocketTypes
    <3> QED BY <2>1, <3>1
  <2>2. CASE q # p
    <3>1. csock'[q] = csock[q] BY <2>2, PortsInPorts DEF Recv, Keep, Types, SocketTypes
    <3> QED BY <2>2, <3>1 DEF Ownership
  <2> QED BY <2>1, <2>2
<1> QED BY <1>2, <1>3 DEF Ownership

LEMMA FilledOwned ==
    ASSUME Types, Ownership, NEW p \in socks, active(p)
    PROVE  filled(p) \in Seq(Own(conn(p)))
<1>1. p \in Ports /\ conn(p) \in Clients /\ PortOf(conn(p)) = p
  BY Connection, PortsInPorts DEF active, Types
<1>2. conn(p) \in Radios BY <1>1, PortsApart DEF Radios
<1>3. up[conn(p)] \in Seq(Own(conn(p))) BY <1>2 DEF Ownership
<1>4. SubSeq(up[conn(p)], 1, taken(p)) \in Seq(Own(conn(p))) BY <1>1, <1>3, TakenTyped
<1>5. buf[p] \in Seq(Own(conn(p))) BY OwnedByConn
<1> QED BY <1>4, <1>5, ConcatProperties DEF filled

LEMMA ReadMsgOwned ==
    ASSUME Types, Ownership, NEW p \in socks \cup {MITM}, NEW m, ReadMsg(p, m)
    PROVE  Ownership'
<1>1. p \in Ports BY PortsInPorts
<1>2. active(p) /\ Recv(p) /\ filled(p) # <<>> BY DEF ReadMsg
<1>3. \A q \in socks \ {p} : buf'[q] = buf[q]
  BY PortsInPorts DEF ReadMsg, Types, BufTypes
<1>4. ASSUME p \in socks PROVE buf'[p] \in Seq(Own(conn(p)))
  <2>1. filled(p) \in Seq(Own(conn(p))) BY <1>2, <1>4, FilledOwned
  <2>2. Tail(filled(p)) \in Seq(Own(conn(p))) BY <1>2, <2>1, HeadTailProperties
  <2>3. buf'[p] = Tail(filled(p)) BY <1>1 DEF ReadMsg, Types, BufTypes
  <2> QED BY <2>2, <2>3
<1> QED BY <1>1, <1>2, <1>3, <1>4, RecvOwned

LEMMA ReadNoneOwned ==
    ASSUME Types, Ownership, NEW p \in Ports, ReadNone(p)
    PROVE  Ownership'
<1>1. CASE UNCHANGED sockVars BY <1>1, StillOwned DEF sockVars
<1>2. CASE close(p) BY <1>2, CloseOwned
<1>3. CASE active(p) /\ Recv(p) /\ UNCHANGED buf BY <1>3, RecvOwned, OwnedByConn
<1> QED BY <1>1, <1>2, <1>3 DEF ReadNone

LEMMA SendMsgOwned ==
    ASSUME Types, Ownership, NEW p \in Ports, NEW m, SendMsg(p, m)
    PROVE  Ownership'
<1>1. CASE UNCHANGED sockVars BY <1>1, StillOwned DEF sockVars
<1>2. CASE close(p) BY <1>2, CloseOwned
<1>3. CASE Keep(p, conn(p)) /\ UNCHANGED <<up, buf>> BY <1>3, KeepOwned
<1> QED BY <1>1, <1>2, <1>3 DEF SendMsg

LEMMA EmulatorOwned == Types /\ Ownership /\ Emulator => Ownership'
<1> SUFFICES ASSUME Types, Ownership, Emulator PROVE Ownership' OBVIOUS
<1> USE PortsInPorts
<1>1. CASE ProbeRead
  <2>1. CASE close(PROBE) BY <2>1, CloseOwned
  <2>2. CASE active(PROBE) /\ Recv(PROBE) /\ UNCHANGED buf
    BY <2>2, RecvOwned, PortsApart
  <2>3. CASE UNCHANGED sockVars BY <2>3, StillOwned DEF sockVars
  <2> QED BY <1>1, <2>1, <2>2, <2>3 DEF ProbeRead
<1>2. CASE RecvrSend
  <2>1. CASE UNCHANGED sockVars BY <2>1, StillOwned DEF sockVars
  <2>2. CASE Keep(RECVR, conn(RECVR)) /\ UNCHANGED <<up, down, buf>> BY <2>2, KeepOwned
  <2>3. CASE SendMsg(RECVR, Trace) BY <2>3, SendMsgOwned
  <2> QED BY <1>2, <2>1, <2>2, <2>3 DEF RecvrSend
<1>3. CASE PollPort
  <2>1. Head(todo) \in socks BY <1>3 DEF PollPort, Types, LocalTypes
  <2>2. \/ Keep(Head(todo), conn(Head(todo))) /\ UNCHANGED <<up, buf>>
        \/ UNCHANGED <<up, buf, csock>>
    BY <1>3 DEF PollPort
  <2> QED BY <2>1, <2>2, KeepOwned, StillOwned
<1>4. CASE ReadOne
  BY <1>4, ReadMsgOwned, ReadNoneOwned DEF ReadOne, Types, LocalTypes
<1>5. CASE MitmActive BY <1>5, KeepOwned, StillOwned DEF MitmActive
<1>6. CASE ForwardOne BY <1>6, SendMsgOwned DEF ForwardOne
<1>7. CASE MitmReadOne BY <1>7, ReadMsgOwned, ReadNoneOwned DEF MitmReadOne
<1>8. CASE Route BY <1>8, StillOwned DEF Route, sockVars
<1>9. CASE SendOne
  <2>1. Head(hearers) \in socks BY <1>9 DEF SendOne, Types, LocalTypes
  <2> QED BY <1>9, <2>1, SendMsgOwned DEF SendOne
<1> QED BY <1>1, <1>2, <1>3, <1>4, <1>5, <1>6, <1>7, <1>8, <1>9 DEF Emulator

LEMMA WritesOwned ==
    ASSUME Types, Ownership, NEW c \in Clients, NEW m, c \in Radios => m \in Own(c), Writes(c, m)
    PROVE  Ownership'
<1>1. ASSUME NEW e \in Radios PROVE up'[e] \in Seq(Own(e))
  <2>1. up[e] \in Seq(Own(e)) BY DEF Ownership
  <2>2. CASE e = c
    <3>1. up'[e] = Append(up[e], m) BY <2>2 DEF Writes, Types, UpTypes
    <3> QED BY <2>1, <2>2, <3>1
  <2>3. CASE e # c
    <3>1. up'[e] = up[e] BY <2>3 DEF Writes, Types, UpTypes, Radios, Clients
    <3> QED BY <2>1, <3>1
  <2> QED BY <2>2, <2>3
<1> QED BY <1>1 DEF Ownership, Writes

LEMMA ClientOwned == \A c \in Clients : Types /\ Ownership /\ Client(c) => Ownership'
<1> SUFFICES ASSUME Types, Ownership, NEW c \in Clients, Client(c) PROVE Ownership' OBVIOUS
<1>1. CASE Connect(c) BY <1>1, StillOwned DEF Connect
<1>2. CASE HangUp(c) BY <1>2, StillOwned DEF HangUp
<1>3. CASE NewMessage(c)
  <2>1. sent'[c] = sent[c] + 1 /\ sent[c] < MaxSent[c]
    BY <1>3 DEF NewMessage, Types, ClientTypes
  <2>2. ASSUME NEW t \in SedTargets, c \in Boots PROVE packet(t, IdOf[c], <<c, sent'[c]>>) \in Own(c)
    BY <2>1, <2>2, MessageTyped DEF Own, packet
  <2>3. ASSUME NEW t \in FaaTargets, c \in FaaClients PROVE packet(t, FAA_ID, <<c, sent'[c]>>) \in Own(c)
    BY <2>1, <2>3, MessageTyped DEF Own, packet
  <2>4. c \in ProbeClients => c \notin Radios BY RadioAssumption DEF Radios
  <2> QED BY <1>3, <2>2, <2>3, <2>4, WritesOwned DEF NewMessage
<1>4. CASE ClientReads(c) BY <1>4, StillOwned DEF ClientReads, Reads
<1>5. CASE MitmTakes(c) BY <1>5, StillOwned DEF MitmTakes, Reads
<1>6. CASE MitmGives(c)
  <2>1. c \notin Radios BY <1>6, RadioAssumption DEF MitmGives, Radios
  <2> QED BY <1>6, <2>1, WritesOwned DEF MitmGives
<1> QED BY <1>1, <1>2, <1>3, <1>4, <1>5, <1>6 DEF Client

LEMMA SpecOwned == Spec => []Ownership
<1>1. Init => Ownership BY InitOwnership
<1>2. Types /\ Ownership /\ [Next]_vars => Ownership'
  BY EmulatorOwned, ClientOwned, StillOwned DEF Next, vars
<1> QED BY <1>1, <1>2, SpecTyped, PTL DEF Spec

\* A program that comes back to an antenna finds nothing there of the one that
\* has gone, wherever in a message or a batch it went.
THEOREM BuffersAreTheClients == Spec => []BufOwned
BY SpecOwned, OwnershipSuffices, PTL

-----------------------------------------------------------------------------
(* Why the emulator goes down.                                             *)

\* poll_sc_sock returns no bytes only when the probe has hung up.
Probed == pc = "recvr" /\ sc = None => \E c \in ProbeClients : rfLink[c] = "closed"

LEMMA NextProbed == Types /\ Probed /\ [Next]_vars => Probed'
<1> SUFFICES ASSUME Types, Probed, [Next]_vars, pc' = "recvr", sc' = None
             PROVE  \E c \in ProbeClients : rfLink'[c] = "closed"
  BY DEF Probed
<1>1. CASE ProbeRead
  <2>1. active(PROBE) /\ AtEnd(PROBE) BY <1>1 DEF ProbeRead, None
  <2>2. conn(PROBE) \in ProbeClients
    BY <2>1, Connection, PortsApart, PortsInPorts DEF active, Types
  <2>3. rfLink'[conn(PROBE)] = "closed" BY <1>1, <2>1 DEF AtEnd, ProbeRead, clientVars
  <2> QED BY <2>2, <2>3
<1>2. CASE Emulator /\ ~ProbeRead
  BY <1>2 DEF Emulator, RecvrSend, PollPort, ReadOne, MitmActive, ForwardOne, MitmReadOne,
              Route, SendOne, AtPoll
<1>3. CASE \E c \in Clients : Client(c)
  <2>1. pc = "recvr" /\ sc = None
    BY <1>3 DEF Client, Connect, HangUp, NewMessage, ClientReads, MitmTakes, MitmGives,
                Writes, Reads, localVars
  <2>2. PICK c \in ProbeClients : rfLink[c] = "closed" BY <2>1 DEF Probed
  <2>3. rfLink'[c] = "closed"
    BY <1>3, <2>2 DEF Client, Connect, HangUp, NewMessage, ClientReads, MitmTakes, MitmGives,
                      Writes, Reads, Types, ClientTypes, Clients
  <2> QED BY <2>2, <2>3
<1>4. CASE UNCHANGED vars BY <1>4 DEF vars, Probed
<1> QED BY <1>1, <1>2, <1>3, <1>4 DEF Next

LEMMA NextExitCause == Types /\ Probed /\ ExitCause /\ [Next]_vars => ExitCause'
<1> SUFFICES ASSUME Types, Probed, ExitCause, [Next]_vars, pc' = "exited"
             PROVE  \/ direct(msg') /\ msg'.tgt \notin socks
                    \/ \E c \in ProbeClients : rfLink'[c] = "closed"
  BY DEF ExitCause, direct
<1>1. CASE RecvrSend
  <2>1. pc = "recvr" /\ sc = None /\ UNCHANGED rfLink BY <1>1 DEF RecvrSend, clientVars
  <2> QED BY <2>1 DEF Probed
<1>2. CASE Route
  <2>1. msg' = Head(msgs) /\ direct(Head(msgs)) /\ Head(msgs).tgt \notin socks
    BY <1>2 DEF Route
  <2> QED BY <2>1
<1>3. CASE Emulator /\ ~RecvrSend /\ ~Route
  BY <1>3 DEF Emulator, ProbeRead, PollPort, ReadOne, MitmActive, ForwardOne, MitmReadOne,
              SendOne, AtPoll
<1>4. CASE \E c \in Clients : Client(c)
  <2>1. pc = "exited" /\ msg' = msg
    BY <1>4 DEF Client, Connect, HangUp, NewMessage, ClientReads, MitmTakes, MitmGives,
                Writes, Reads, localVars
  <2>2. ASSUME NEW c \in ProbeClients, rfLink[c] = "closed" PROVE rfLink'[c] = "closed"
    BY <1>4, <2>2 DEF Client, Connect, HangUp, NewMessage, ClientReads, MitmTakes, MitmGives,
                      Writes, Reads, Types, ClientTypes, Clients
  <2> QED BY <2>1, <2>2 DEF ExitCause
<1>5. CASE UNCHANGED vars BY <1>5 DEF vars, ExitCause
<1> QED BY <1>1, <1>2, <1>3, <1>4, <1>5 DEF Next

\* The emulator never goes down but for a message between the FAA and an ID
\* that has no socket, and a probe that hangs up.
THEOREM GoesDownForTwoReasons == Spec => []ExitCause
<1>1. Init => Probed /\ ExitCause BY DEF Init, Probed, ExitCause
<1> QED BY <1>1, NextProbed, NextExitCause, SpecTyped, PTL DEF Spec

-----------------------------------------------------------------------------
(* The emulator and its sockets.                                           *)

\* Nobody waits twice in a backlog, or waits there and is connected too.
Backlogs ==
    \A p \in Ports :
        /\ \A i, j \in DOMAIN waiting[p] : waiting[p][i] = waiting[p][j] => i = j
        /\ \A i \in DOMAIN waiting[p] : waiting[p][i] # csock[p]

\* A client is the emulator's from its connect on, at least until it hangs up,
\* and one that has hung up reads nothing.
Lives ==
    /\ \A c \in Clients :
          rfLink[c] = "unused" => ~Held(c) /\ up[c] = <<>> /\ down[c] = <<>>
    /\ \A c \in Clients : rfLink[c] = "open" => Held(c)
    /\ \A c \in Clients : rfLink[c] = "closed" => down[c] = <<>>

\* One at a time at each port.
Alone ==
    \A c, e \in Clients :
        rfLink[c] = "open" /\ rfLink[e] = "open" /\ PortOf(c) = PortOf(e) => c = e

Connected == Backlogs /\ Lives /\ Alone

\* Everything the emulator does to a socket.
Op(p) ==
    \/ UNCHANGED sockVars
    \/ Keep(p, conn(p)) /\ UNCHANGED <<up, down, buf>>
    \/ active(p) /\ rfLink[conn(p)] = "closed" /\ close(p)
    \/ active(p) /\ Recv(p) /\ \A q \in Ports \ {p} : buf'[q] = buf[q]
    \/ /\ active(p) /\ rfLink[conn(p)] = "open"
       /\ \E m : down' = [down EXCEPT ![conn(p)] = Append(@, m)]
       /\ Keep(p, conn(p)) /\ UNCHANGED <<up, buf>>

LEMMA ReadMsgIsOp == ASSUME Types, NEW p \in Ports, NEW m, ReadMsg(p, m) PROVE Op(p)
<1>1. \A q \in Ports \ {p} : buf'[q] = buf[q] BY DEF ReadMsg, Types, BufTypes
<1> QED BY <1>1 DEF ReadMsg, Op

LEMMA ReadNoneIsOp == ASSUME NEW p \in Ports, ReadNone(p) PROVE Op(p)
BY DEF ReadNone, Op, AtEnd

LEMMA SendMsgIsOp == ASSUME NEW p \in Ports, NEW m, SendMsg(p, m) PROVE Op(p)
BY DEF SendMsg, Op

LEMMA EmulatorOps == Types /\ Emulator => UNCHANGED clientVars /\ \E p \in Ports : Op(p)
<1> SUFFICES ASSUME Types, Emulator PROVE UNCHANGED clientVars /\ \E p \in Ports : Op(p) OBVIOUS
<1> USE PortsInPorts
<1>1. CASE ProbeRead
  <2>1. Op(PROBE) BY <1>1 DEF ProbeRead, Op, AtEnd
  <2> QED BY <1>1, <2>1 DEF ProbeRead
<1>2. CASE RecvrSend
  <2>1. Op(RECVR)
    <3>1. CASE SendMsg(RECVR, Trace) BY <3>1, SendMsgIsOp
    <3>2. CASE ~SendMsg(RECVR, Trace) BY <1>2, <3>2 DEF RecvrSend, Op
    <3> QED BY <3>1, <3>2
  <2> QED BY <1>2, <2>1 DEF RecvrSend
<1>3. CASE PollPort
  <2>1. Head(todo) \in Ports BY <1>3 DEF PollPort, Types, LocalTypes
  <2>2. Op(Head(todo)) BY <1>3 DEF PollPort, Op, sockVars
  <2> QED BY <1>3, <2>1, <2>2 DEF PollPort
<1>4. CASE ReadOne
  <2>1. port \in Ports BY <1>4 DEF ReadOne, Types, LocalTypes
  <2> QED BY <1>4, <2>1, ReadMsgIsOp, ReadNoneIsOp DEF ReadOne
<1>5. CASE MitmActive
  <2>1. Op(MITM) BY <1>5 DEF MitmActive, Op, sockVars
  <2> QED BY <1>5, <2>1 DEF MitmActive
<1>6. CASE ForwardOne BY <1>6, SendMsgIsOp DEF ForwardOne
<1>7. CASE MitmReadOne BY <1>7, ReadMsgIsOp, ReadNoneIsOp DEF MitmReadOne
<1>8. CASE Route BY <1>8 DEF Route, Op
<1>9. CASE SendOne
  <2>1. Head(hearers) \in Ports BY <1>9 DEF SendOne, Types, LocalTypes
  <2> QED BY <1>9, <2>1, SendMsgIsOp DEF SendOne
<1> QED BY <1>1, <1>2, <1>3, <1>4, <1>5, <1>6, <1>7, <1>8, <1>9 DEF Emulator

\* Who is the emulator's when active has returned, or a connection is closed.
LEMMA KeepHeld ==
    ASSUME Types, Backlogs, NEW p \in Ports, NEW x, x = conn(p), NEW c \in {None, x}, Keep(p, c)
    PROVE  /\ Backlogs'
           /\ \A e \in Clients \ {x} : Held(e)' <=> Held(e)
           /\ x # None => Held(x) /\ (Held(x)' <=> c = x)
<1>1. x \in Clients \cup {None} /\ (x # None => PortOf(x) = p)
  BY Connection DEF Types
<1>2. /\ csock \in [Ports -> Clients \cup {None}] /\ waiting \in [Ports -> Seq(Clients)]
      /\ \A q \in Ports : \A k \in DOMAIN waiting[q] : PortOf(waiting[q][k]) = q
  BY DEF Types, SocketTypes
<1>3. /\ csock'[p] = c
      /\ \A q \in Ports \ {p} : csock'[q] = csock[q] /\ waiting'[q] = waiting[q]
      /\ waiting'[p] = IF csock[p] = None /\ waiting[p] # <<>> THEN Tail(waiting[p]) ELSE waiting[p]
  BY <1>2 DEF Keep
<1>4. None \notin Clients BY RadioAssumption
<1>5. CASE csock[p] # None \/ waiting[p] = <<>>
  <2>1. x = csock[p] BY <1>5 DEF conn
  <2>2. waiting' = waiting BY <1>2, <1>3, <1>5 DEF Keep
  <2>3. Backlogs' BY <1>2, <1>3, <1>4, <1>5, <2>1, <2>2 DEF Backlogs
  <2>4. ASSUME NEW e \in Clients \ {x} PROVE Held(e)' <=> Held(e)
    BY <1>2, <1>3, <1>4, <2>1, <2>2, PortsApart DEF Held
  <2>5. x # None => Held(x) /\ (Held(x)' <=> c = x)
    BY <1>1, <1>2, <1>3, <2>1, <2>2 DEF Held, Backlogs
  <2> QED BY <2>3, <2>4, <2>5
<1>6. CASE csock[p] = None /\ waiting[p] # <<>>
  <2>1. x = Head(waiting[p]) BY <1>6 DEF conn
  <2>2. waiting[p] \in Seq(Clients) BY <1>2
  <2>3. PICK w \in Seq(Clients) : w = waiting[p] BY <2>2
  <2>4. PICK v : v = waiting'[p] OBVIOUS
  <2>5. /\ v \in Seq(Clients) /\ Len(v) + 1 = Len(w) /\ Len(v) \in Nat
        /\ \A i \in 1..Len(v) : v[i] = w[i + 1]
        /\ w[1] = x /\ 1 \in 1..Len(w)
    BY <1>3, <1>6, <2>1, <2>3, <2>4, HeadTailProperties
  <2>6. \A i, j \in 1..Len(w) : w[i] = w[j] => i = j BY <2>3 DEF Backlogs
  <2>7. \A i \in 1..Len(v) : v[i] # x
    <3> SUFFICES ASSUME NEW i \in 1..Len(v), v[i] = x PROVE FALSE OBVIOUS
    <3>1. i + 1 \in 1..Len(w) /\ i + 1 # 1 BY <2>5
    <3> QED BY <2>5, <2>6, <3>1
  <2>8. \A i, j \in 1..Len(v) : v[i] = v[j] => i = j
    <3> SUFFICES ASSUME NEW i \in 1..Len(v), NEW j \in 1..Len(v), v[i] = v[j] PROVE i = j OBVIOUS
    <3>1. i + 1 \in 1..Len(w) /\ j + 1 \in 1..Len(w) BY <2>5
    <3>2. i + 1 = j + 1 BY <2>5, <2>6, <3>1
    <3> QED BY <3>2
  <2>9. \A i \in 1..Len(v) : v[i] \in Clients BY <2>5
  <2>10. \A e : e # x => ((\E i \in 1..Len(v) : v[i] = e) <=> (\E i \in 1..Len(w) : w[i] = e))
    <3> SUFFICES ASSUME NEW e, e # x
                 PROVE  (\E i \in 1..Len(v) : v[i] = e) <=> (\E i \in 1..Len(w) : w[i] = e)
      OBVIOUS
    <3>1. ASSUME NEW i \in 1..Len(v), v[i] = e PROVE \E k \in 1..Len(w) : w[k] = e
      <4>1. i + 1 \in 1..Len(w) BY <2>5
      <4> QED BY <2>5, <3>1, <4>1
    <3>2. ASSUME NEW i \in 1..Len(w), w[i] = e PROVE \E k \in 1..Len(v) : v[k] = e
      <4>1. i - 1 \in 1..Len(v) /\ (i - 1) + 1 = i BY <2>5, <3>2
      <4> QED BY <2>5, <3>2, <4>1
    <3> QED BY <3>1, <3>2
  <2>11. DOMAIN v = 1..Len(v) /\ DOMAIN w = 1..Len(w) BY <2>5
  <2>12. Backlogs'
    <3>1. ASSUME NEW q \in Ports \ {p}
          PROVE  /\ \A i, j \in DOMAIN waiting'[q] : waiting'[q][i] = waiting'[q][j] => i = j
                 /\ \A i \in DOMAIN waiting'[q] : waiting'[q][i] # csock'[q]
      BY <1>3 DEF Backlogs
    <3>2. \A i \in DOMAIN v : v[i] # csock'[p] BY <1>3, <1>4, <2>7, <2>9, <2>11
    <3> QED BY <2>4, <2>8, <2>11, <3>1, <3>2 DEF Backlogs
  <2>13. ASSUME NEW e \in Clients \ {x} PROVE Held(e)' <=> Held(e)
    <3>1. CASE PortOf(e) # p BY <1>3, <3>1, PortsApart DEF Held
    <3>2. CASE PortOf(e) = p
      <4>1. csock'[p] # e /\ csock[p] # e BY <1>3, <1>4, <1>6
      <4> QED BY <2>3, <2>4, <2>10, <2>11, <3>2, <4>1 DEF Held
    <3> QED BY <3>1, <3>2
  <2>14. x \in Clients /\ PortOf(x) = p BY <1>1, <1>4, <2>2, <2>1, <2>3, <2>5
  <2>15. Held(x) BY <2>3, <2>5, <2>11, <2>14 DEF Held
  <2>16. Held(x)' <=> c = x BY <1>3, <2>4, <2>7, <2>11, <2>14 DEF Held
  <2> QED BY <2>12, <2>13, <2>15, <2>16
<1> QED BY <1>5, <1>6

LEMMA OpConnected ==
    ASSUME Types, Connected, NEW p \in Ports, Op(p), UNCHANGED clientVars
    PROVE  Connected'
<1>1. rfLink' = rfLink BY DEF clientVars
<1>2. Alone' BY <1>1 DEF Connected, Alone
<1>3. PICK x : x = conn(p) OBVIOUS
<1>4. x \in Clients \cup {None} BY <1>3, Connection DEF Types
<1>5. Lives /\ Backlogs BY DEF Connected
<1>6. ASSUME NEW c \in Clients, rfLink[c] = "unused" PROVE c # x
  <2>1. ~Held(c) BY <1>5, <1>6 DEF Lives
  <2> SUFFICES ASSUME c = x PROVE FALSE OBVIOUS
  <2>2. CASE csock[p] # None BY <1>3, <2>1, <2>2, Connection DEF conn, Held, Types
  <2>3. CASE csock[p] = None /\ waiting[p] # <<>>
    <3>1. waiting[p] \in Seq(Clients) BY DEF Types, SocketTypes
    <3>2. waiting[p][1] = x /\ 1 \in DOMAIN waiting[p] BY <1>3, <2>3, <3>1 DEF conn
    <3>3. PortOf(c) = p BY <1>3, Connection, RadioAssumption DEF Types
    <3> QED BY <2>1, <3>2, <3>3 DEF Held
  <2>4. CASE csock[p] = None /\ waiting[p] = <<>>
    BY <1>3, <2>4, RadioAssumption DEF conn
  <2> QED BY <2>2, <2>3, <2>4
<1>7. CASE UNCHANGED sockVars
  <2>1. \A c \in Clients : Held(c)' <=> Held(c) BY <1>7 DEF sockVars, Held
  <2>2. Backlogs' BY <1>5, <1>7 DEF sockVars, Backlogs
  <2>3. Lives' BY <1>1, <1>5, <1>7, <2>1 DEF sockVars, Lives
  <2> QED BY <1>2, <2>2, <2>3 DEF Connected
<1>8. ASSUME Keep(p, None), x # None, rfLink[x] = "closed"
      PROVE  /\ Backlogs'
             /\ \A e \in Clients : rfLink[e] = "unused" => ~Held(e)'
             /\ \A e \in Clients : rfLink[e] = "open" => Held(e)'
  <2>1. Backlogs' /\ (\A e \in Clients \ {x} : Held(e)' <=> Held(e)) /\ ~Held(x)'
    BY <1>3, <1>5, <1>8, KeepHeld
  <2> QED BY <1>5, <1>8, <2>1 DEF Lives
<1>9. ASSUME Keep(p, x)
      PROVE  /\ Backlogs'
             /\ \A e \in Clients : rfLink[e] = "unused" => ~Held(e)'
             /\ \A e \in Clients : rfLink[e] = "open" => Held(e)'
  <2>1. /\ Backlogs' /\ \A e \in Clients \ {x} : Held(e)' <=> Held(e)
        /\ x # None => Held(x) /\ Held(x)'
    BY <1>3, <1>5, <1>9, KeepHeld
  <2>2. x \in Clients => Held(x)'
    BY <2>1, RadioAssumption
  <2> QED BY <1>5, <1>6, <2>1, <2>2 DEF Lives
<1>13. CASE Keep(p, conn(p)) /\ UNCHANGED <<up, down, buf>>
  <2>1. Keep(p, x) BY <1>3, <1>13
  <2> QED BY <1>1, <1>2, <1>5, <1>9, <1>13, <2>1 DEF Connected, Lives
<1>10. CASE active(p) /\ rfLink[conn(p)] = "closed" /\ close(p)
  <2>1. Keep(p, None) /\ x # None /\ rfLink[x] = "closed" BY <1>3, <1>10 DEF close, active
  <2>2. UNCHANGED <<up, down>> BY <1>10 DEF close
  <2> QED BY <1>1, <1>2, <1>5, <1>8, <2>1, <2>2 DEF Connected, Lives
<1>11. CASE active(p) /\ Recv(p)
  <2>1. Keep(p, x) /\ UNCHANGED down BY <1>3, <1>11 DEF Recv
  <2>2. \A c \in Clients : c # x => up'[c] = up[c]
    BY <1>3, <1>11 DEF Recv, Types, UpTypes
  <2> QED BY <1>1, <1>2, <1>5, <1>6, <1>9, <2>1, <2>2 DEF Connected, Lives
<1>12. CASE /\ active(p) /\ rfLink[conn(p)] = "open"
            /\ \E m : down' = [down EXCEPT ![conn(p)] = Append(@, m)]
            /\ Keep(p, conn(p)) /\ UNCHANGED <<up, buf>>
  <2>1. Keep(p, x) /\ UNCHANGED up /\ rfLink[x] = "open" BY <1>3, <1>12
  <2>2. \A c \in Clients : c # x => down'[c] = down[c] BY <1>3, <1>12 DEF Types, DownTypes
  <2> QED BY <1>1, <1>2, <1>5, <1>6, <1>9, <2>1, <2>2 DEF Connected, Lives
<1> QED BY <1>7, <1>10, <1>11, <1>12, <1>13 DEF Op

LEMMA ConnectConnected ==
    \A c \in Clients : Types /\ Connected /\ Connect(c) => Connected'
<1> SUFFICES ASSUME Types, Connected, NEW c \in Clients, Connect(c) PROVE Connected' OBVIOUS
<1>1. PICK p : p = PortOf(c) OBVIOUS
<1>2. p \in Ports BY <1>1, PortsApart
<1>3. /\ waiting \in [Ports -> Seq(Clients)] /\ rfLink \in [Clients -> {"unused", "open", "closed"}]
      /\ \A q \in Ports : \A k \in DOMAIN waiting[q] : PortOf(waiting[q][k]) = q
  BY DEF Types, SocketTypes, ClientTypes
<1>4. /\ \A q \in Ports \ {p} : waiting'[q] = waiting[q]
      /\ waiting'[p] = Append(waiting[p], c)
      /\ \A e \in Clients \ {c} : rfLink'[e] = rfLink[e]
      /\ rfLink'[c] = "open" /\ rfLink[c] = "unused"
      /\ UNCHANGED <<up, down, csock>>
  BY <1>1, <1>2, <1>3 DEF Connect
<1>5. PICK w \in Seq(Clients) : w = waiting[p] BY <1>2, <1>3
<1>6. PICK v \in Seq(Clients) : v = Append(w, c)
  <2>1. Append(w, c) \in Seq(Clients) BY AppendProperties
  <2> QED BY <2>1
<1>7. /\ Len(v) = Len(w) + 1 /\ Len(w) \in Nat /\ v[Len(w) + 1] = c
      /\ \A i \in 1..Len(w) : v[i] = w[i]
      /\ DOMAIN v = 1..Len(v) /\ DOMAIN w = 1..Len(w)
  BY <1>6, AppendProperties
<1>8. ~Held(c) BY <1>4 DEF Connected, Lives
<1>9. csock[p] # c /\ \A i \in 1..Len(w) : w[i] # c BY <1>1, <1>5, <1>7, <1>8 DEF Held
<1>10. Backlogs'
  <2>1. \A i, j \in 1..Len(w) : w[i] = w[j] => i = j BY <1>2, <1>5, <1>7 DEF Connected, Backlogs
  <2>2. \A i, j \in 1..Len(v) : v[i] = v[j] => i = j BY <1>7, <1>9, <2>1
  <2>3. \A i \in 1..Len(w) : w[i] # csock[p] BY <1>2, <1>5, <1>7 DEF Connected, Backlogs
  <2>4. \A i \in 1..Len(v) : v[i] # csock[p] BY <1>7, <1>9, <2>3
  <2>5. waiting'[p] = v BY <1>4, <1>5, <1>6
  <2> QED BY <1>4, <1>7, <2>2, <2>4, <2>5 DEF Connected, Backlogs
<1>11. ASSUME NEW e \in Clients \ {c} PROVE Held(e)' <=> Held(e)
  <2>1. CASE PortOf(e) # p BY <1>4, <2>1, PortsApart DEF Held
  <2>2. CASE PortOf(e) = p
    <3>1. (\E i \in 1..Len(v) : v[i] = e) <=> (\E i \in 1..Len(w) : w[i] = e)
      <4>1. \A i \in 1..Len(v) : i = Len(w) + 1 \/ i \in 1..Len(w) BY <1>7
      <4>2. \A i \in 1..Len(w) : i \in 1..Len(v) BY <1>7
      <4> QED BY <1>7, <4>1, <4>2
    <3> QED BY <1>4, <1>5, <1>6, <1>7, <2>2, <3>1 DEF Held
  <2> QED BY <2>1, <2>2
<1>12. Held(c)'
  <2>1. Len(w) + 1 \in 1..Len(v) BY <1>7
  <2> QED BY <1>1, <1>4, <1>5, <1>6, <1>7, <2>1 DEF Held
<1>13. Lives' BY <1>4, <1>11, <1>12 DEF Connected, Lives
<1>14. Alone' BY <1>1, <1>4 DEF Connected, Alone, Connect
<1> QED BY <1>10, <1>13, <1>14 DEF Connected

LEMMA ClientConnected ==
    \A c \in Clients : Types /\ Connected /\ Client(c) => Connected'
<1> SUFFICES ASSUME Types, Connected, NEW c \in Clients, Client(c) PROVE Connected' OBVIOUS
<1>1. CASE Connect(c) BY <1>1, ConnectConnected
<1>2. ASSUME UNCHANGED <<csock, waiting>>
      PROVE  Backlogs' /\ \A e \in Clients : Held(e)' <=> Held(e)
  BY <1>2 DEF Connected, Backlogs, Held
<1>3. CASE HangUp(c)
  <2>1. /\ rfLink[c] = "open" /\ rfLink'[c] = "closed" /\ down'[c] = <<>>
        /\ \A e \in Clients \ {c} : rfLink'[e] = rfLink[e] /\ down'[e] = down[e]
        /\ UNCHANGED <<up, csock, waiting>>
    BY <1>3 DEF HangUp, Types, ClientTypes, DownTypes
  <2> QED BY <1>2, <2>1 DEF Connected, Lives, Alone
<1>4. ASSUME NEW m, Writes(c, m) PROVE Connected'
  <2>1. /\ rfLink[c] = "open" /\ \A e \in Clients \ {c} : up'[e] = up[e]
        /\ UNCHANGED <<rfLink, down, csock, waiting>>
    BY <1>4 DEF Writes, Types, UpTypes
  <2> QED BY <1>2, <2>1 DEF Connected, Lives, Alone
<1>5. ASSUME Reads(c) PROVE Connected'
  <2>1. /\ rfLink[c] = "open" /\ \A e \in Clients \ {c} : down'[e] = down[e]
        /\ UNCHANGED <<rfLink, up, csock, waiting>>
    BY <1>5 DEF Reads, Types, DownTypes
  <2> QED BY <1>2, <2>1 DEF Connected, Lives, Alone
<1> QED BY <1>1, <1>3, <1>4, <1>5 DEF Client, NewMessage, ClientReads, MitmTakes, MitmGives

LEMMA SpecConnected == Spec => []Connected
<1>1. Init => Connected
  <2> SUFFICES ASSUME Init PROVE Connected OBVIOUS
  <2>1. \A c \in Clients : ~Held(c)
    BY PortsApart, RadioAssumption DEF Init, Held
  <2> QED BY <2>1 DEF Init, Connected, Backlogs, Lives, Alone
<1>2. Types /\ Connected /\ [Next]_vars => Connected'
  <2> SUFFICES ASSUME Types, Connected, [Next]_vars PROVE Connected' OBVIOUS
  <2>1. CASE Emulator BY <2>1, EmulatorOps, OpConnected
  <2>2. CASE \E c \in Clients : Client(c) BY <2>2, ClientConnected
  <2>3. CASE UNCHANGED vars
    <3>1. UNCHANGED sockVars /\ UNCHANGED clientVars BY <2>3 DEF vars, sockVars, clientVars
    <3> QED BY <3>1, OpConnected, PortsInPorts DEF Op
  <2> QED BY <2>1, <2>2, <2>3 DEF Next
<1> QED BY <1>1, <1>2, SpecTyped, PTL DEF Spec

-----------------------------------------------------------------------------
(* Without a man in the middle the emulator is a medium.                   *)

\* One message at a time is sent on, to each of its hearers once.
Sending ==
    /\ pc \notin {"forward", "mitmRead"}
    /\ pc # "send" => hearers = <<>>
    /\ \A i, j \in DOMAIN hearers : hearers[i] = hearers[j] => i = j

LEMMA NextSending ==
    ASSUME MitmClients = {}, Types, Sending, [Next]_vars
    PROVE  Sending'
<1>1. ~active(MITM)
  BY Connection, PortsApart, PortsInPorts DEF active, Types
<1>2. CASE Route
  <2>1. hearers = <<>> BY <1>2 DEF Route, Sending
  <2>2. \A i, j \in DOMAIN hearers' : hearers'[i] = hearers'[j] => i = j
    BY <1>2, <2>1, RadioAssumption DEF Route
  <2> QED BY <1>2, <2>1, <2>2 DEF Route, Sending
<1>3. CASE SendOne
  <2>1. PICK h \in Seq(socks) : h = hearers BY DEF Types, LocalTypes
  <2>2. PICK t : t = Tail(h) OBVIOUS
  <2>3. h # <<>> BY <1>3, <2>1 DEF SendOne, Types, LocalTypes
  <2>4. /\ DOMAIN t = 1..Len(t) /\ DOMAIN h = 1..Len(h) /\ Len(t) + 1 = Len(h) /\ Len(t) \in Nat
        /\ \A i \in 1..Len(t) : t[i] = h[i + 1]
    BY <2>2, <2>3, HeadTailProperties
  <2>5. \A i, j \in 1..Len(h) : h[i] = h[j] => i = j BY <2>1, <2>4 DEF Sending
  <2>6. \A i, j \in 1..Len(t) : t[i] = t[j] => i = j
    <3> SUFFICES ASSUME NEW i \in 1..Len(t), NEW j \in 1..Len(t), t[i] = t[j] PROVE i = j OBVIOUS
    <3>1. i + 1 \in 1..Len(h) /\ j + 1 \in 1..Len(h) BY <2>4
    <3>2. i + 1 = j + 1 BY <2>4, <2>5, <3>1
    <3> QED BY <3>2
  <2>7. hearers' = t BY <1>3, <2>1, <2>2 DEF SendOne
  <2>8. pc' \in {"poll", "send"} /\ (pc' # "send" => hearers' = <<>>)
    BY <1>3 DEF SendOne
  <2> QED BY <2>4, <2>6, <2>7, <2>8 DEF Sending
<1>4. CASE Emulator /\ ~Route /\ ~SendOne
  <2>1. hearers' = hearers /\ pc # "send" /\ pc' \notin {"send", "forward", "mitmRead"}
    BY <1>1, <1>4 DEF Emulator, Sending, ProbeRead, RecvrSend, PollPort, ReadOne, MitmActive,
                      ForwardOne, MitmReadOne, AtPoll
  <2> QED BY <2>1 DEF Sending
<1>5. CASE \E c \in Clients : Client(c)
  <2>1. UNCHANGED <<pc, hearers>>
    BY <1>5 DEF Client, Connect, HangUp, NewMessage, ClientReads, MitmTakes, MitmGives,
                Writes, Reads, localVars
  <2> QED BY <2>1 DEF Sending
<1>6. CASE UNCHANGED vars BY <1>6 DEF vars, Sending
<1> QED BY <1>2, <1>3, <1>4, <1>5, <1>6 DEF Next

LEMMA SameIds == Air!FAA_ID = FAA_ID /\ Air!BRDCST_ID = BRDCST_ID
BY DEF Air!FAA_ID, FAA_ID, Air!BRDCST_ID, BRDCST_ID

LEMMA RadiosPorts ==
    /\ Air!Radios = Radios /\ Air!Ports = socks
    /\ \A c \in Radios : c \in Clients /\ PortOf(c) \in socks /\ PortOf(c) \in Ports
    /\ \A c \in Radios : Air!PortOf(c) = PortOf(c)
<1>1. Air!Radios = Radios /\ Air!Ports = socks
  BY SameIds DEF Air!Radios, Radios, Air!Ports, socks
<1>2. \A c \in Radios : c \in Clients /\ PortOf(c) \in socks /\ PortOf(c) \in Ports
  BY PortsApart, PortsInPorts DEF Radios, Clients
<1>3. \A c \in Radios : Air!PortOf(c) = PortOf(c)
  BY PortsApart, SameIds DEF Radios, Air!PortOf
<1> QED BY <1>1, <1>2, <1>3

LEMMA ReachIsFor ==
    ASSUME NEW p \in socks, NEW m \in Packet
    PROVE  p \in Air!Reach(m) <=> m \in For(p)
BY PortsApart, SameIds, RadiosPorts DEF Air!Reach, For, direct

-----------------------------------------------------------------------------
(* What a step of the emulator at a socket is in the medium.               *)

LEMMA OthersUnread ==
    ASSUME Types, Connected, NEW p \in Ports, NEW x, x = conn(p), NEW c \in {None, x}, Keep(p, c),
           \A q \in Ports \ {p} : buf'[q] = buf[q],
           NEW e \in Radios, e # x, up'[e] = up[e]
    PROVE  Unread'[e] = Unread[e]
<1>1. Held(e)' <=> Held(e) BY KeepHeld, RadiosPorts DEF Connected
<1>2. e \in Clients /\ e # None /\ PortOf(e) \in Ports BY RadiosPorts, RadioAssumption
<1>3. CASE PortOf(e) = p
  <2>1. csock[p] # e BY <1>2 DEF conn
  <2>2. csock'[p] # e BY <1>2 DEF Keep, Types, SocketTypes
  <2> QED BY <1>1, <1>3, <2>1, <2>2 DEF Unread
<1>4. CASE PortOf(e) # p
  <2>1. csock'[PortOf(e)] = csock[PortOf(e)] BY <1>2, <1>4 DEF Keep, Types, SocketTypes
  <2>2. buf'[PortOf(e)] = buf[PortOf(e)] BY <1>2, <1>4
  <2> QED BY <1>1, <2>1, <2>2 DEF Unread
<1> QED BY <1>3, <1>4

LEMMA ConnUnread ==
    ASSUME Types, Ownership, Connected, NEW p \in socks, NEW x, x = conn(p), x # None
    PROVE  /\ x \in Radios /\ x \in Clients /\ PortOf(x) = p /\ Held(x)
           /\ Unread[x] = buf[p] \o up[x]
           /\ buf[p] \in Seq(Packet) /\ up[x] \in Seq(Packet)
<1>1. x \in Clients /\ PortOf(x) = p BY Connection, PortsInPorts DEF Types
<1>2. x \in Radios BY <1>1, PortsApart DEF Radios
<1>3. x \notin ProbeClients BY <1>2, RadioAssumption DEF Radios
<1>4. buf[p] \in Seq(Packet) /\ up[x] \in Seq(Packet)
  BY <1>1, <1>3, PortsInPorts DEF Types, BufTypes, UpTypes
<1>5. Held(x)
  <2>1. CASE csock[p] # None BY <1>1, <2>1 DEF conn, Held
  <2>2. CASE csock[p] = None /\ waiting[p] # <<>>
    <3>1. waiting[p] \in Seq(Clients) BY PortsInPorts DEF Types, SocketTypes
    <3>2. waiting[p][1] = x /\ 1 \in DOMAIN waiting[p] BY <2>2, <3>1 DEF conn
    <3> QED BY <1>1, <3>2 DEF Held
  <2>3. CASE csock[p] = None /\ waiting[p] = <<>> BY <2>3 DEF conn
  <2> QED BY <2>1, <2>2, <2>3
<1>6. Unread[x] = buf[p] \o up[x]
  <2>1. CASE csock[p] = x BY <1>1, <1>2, <2>1 DEF Unread
  <2>2. CASE csock[p] # x
    <3>1. csock[p] = None BY <2>2 DEF conn
    <3>2. buf[p] = <<>> BY <3>1, NothingOwned DEF Ownership
    <3>3. Unread[x] = up[x] BY <1>1, <1>2, <1>5, <2>2 DEF Unread
    <3>4. <<>> \o up[x] = up[x] BY <1>4
    <3> QED BY <3>2, <3>3, <3>4
  <2> QED BY <2>1, <2>2
<1> QED BY <1>1, <1>2, <1>4, <1>5, <1>6

LEMMA UnreadDomain == Unread = [e \in Radios |-> Unread[e]] /\ Unread' = [e \in Radios |-> Unread'[e]]
BY DEF Unread

View == <<Links, Unnoticed, Unread, Received>>

\* The medium sees nothing of an accept.
LEMMA KeepUnread ==
    ASSUME Types, Ownership, Connected, NEW p \in Ports, Keep(p, conn(p)),
           UNCHANGED <<rfLink, up, buf>>
    PROVE  UNCHANGED <<Links, Unnoticed, Unread>>
<1>1. PICK x : x = conn(p) OBVIOUS
<1>2. Keep(p, x) BY <1>1
<1>3. /\ \A e \in Clients \ {x} : Held(e)' <=> Held(e)
      /\ x # None => Held(x) /\ Held(x)'
  BY <1>1, <1>2, KeepHeld DEF Connected
<1>4. \A e \in Clients : Held(e)' <=> Held(e) BY <1>3, RadioAssumption
<1>5. Links' = Links BY DEF Links
<1>6. Unnoticed' = Unnoticed BY <1>4, RadiosPorts DEF Unnoticed
<1>7. ASSUME NEW e \in Radios PROVE Unread'[e] = Unread[e]
  <2>1. CASE e # x BY <1>1, <1>2, <2>1, OthersUnread
  <2>2. CASE e = x
    <3>1. PortOf(x) = p /\ p \in socks /\ x # None
      BY <1>1, <2>2, Connection, RadiosPorts, RadioAssumption DEF Types
    <3>2. Unread[x] = buf[p] \o up[x] BY <1>1, <3>1, ConnUnread
    <3>3. csock'[p] = x BY <1>2 DEF Keep, Types, SocketTypes
    <3>4. Unread'[x] = buf'[p] \o up'[x] BY <2>2, <3>1, <3>3 DEF Unread
    <3> QED BY <2>2, <3>2, <3>4
  <2> QED BY <2>1, <2>2
<1>8. Unread' = Unread BY <1>7, UnreadDomain
<1> QED BY <1>5, <1>6, <1>8

LEMMA KeepView ==
    ASSUME Types, Ownership, Connected, NEW p \in Ports, Keep(p, conn(p)),
           UNCHANGED <<rfLink, up, down, buf>>
    PROVE  UNCHANGED View
BY KeepUnread DEF View, Received

\* Nor of what happens at the other ports.
LEMMA OtherPortView ==
    ASSUME Types, Ownership, Connected, NEW p \in Ports \ socks, Op(p), UNCHANGED clientVars
    PROVE  UNCHANGED View
<1>1. PICK x : x = conn(p) OBVIOUS
<1>2. x \notin Radios
  BY <1>1, Connection, RadiosPorts, RadioAssumption DEF Types
<1>3. CASE UNCHANGED sockVars
  <2>1. \A e : Held(e)' <=> Held(e) BY <1>3 DEF sockVars, Held
  <2> QED BY <1>3, <2>1 DEF View, sockVars, clientVars, Links, Unnoticed, Unread, Received
<1>4. CASE Keep(p, conn(p)) /\ UNCHANGED <<up, down, buf>>
  BY <1>4, KeepView DEF clientVars
<1>5. ASSUME NEW c \in {None, x}, Keep(p, c), \A q \in Ports \ {p} : buf'[q] = buf[q],
             \A e \in Radios : up'[e] = up[e] /\ down'[e] = down[e]
      PROVE  UNCHANGED View
  <2>1. \A e \in Clients \ {x} : Held(e)' <=> Held(e) BY <1>1, <1>5, KeepHeld DEF Connected
  <2>2. Links' = Links BY DEF Links, clientVars
  <2>3. Received' = Received BY <1>5 DEF Received
  <2>4. Unnoticed' = Unnoticed BY <1>2, <2>1, RadiosPorts DEF Unnoticed, clientVars
  <2>5. \A e \in Radios : Unread'[e] = Unread[e] BY <1>1, <1>2, <1>5, OthersUnread
  <2>6. Unread' = Unread BY <2>5, UnreadDomain
  <2> QED BY <2>2, <2>3, <2>4, <2>6 DEF View
<1>6. CASE close(p)
  <2>1. Keep(p, None) /\ UNCHANGED <<up, down>> /\ \A q \in Ports \ {p} : buf'[q] = buf[q]
    BY <1>6 DEF close, Types, BufTypes
  <2>2. PICK c \in {None, x} : c = None OBVIOUS
  <2>3. Keep(p, c) BY <2>1, <2>2
  <2> QED BY <1>5, <2>1, <2>3
<1>7. CASE active(p) /\ Recv(p) /\ \A q \in Ports \ {p} : buf'[q] = buf[q]
  <2>1. PICK c \in {None, x} : c = x OBVIOUS
  <2>2. Keep(p, c) /\ UNCHANGED down BY <1>1, <1>7, <2>1 DEF Recv
  <2>3. \A e \in Radios : up'[e] = up[e]
    BY <1>1, <1>2, <1>7, RadiosPorts DEF Recv, Types, UpTypes
  <2> QED BY <1>5, <1>7, <2>2, <2>3
<1>8. CASE /\ \E m : down' = [down EXCEPT ![conn(p)] = Append(@, m)]
           /\ Keep(p, conn(p)) /\ UNCHANGED <<up, buf>>
  <2>1. PICK c \in {None, x} : c = x OBVIOUS
  <2>2. Keep(p, c) BY <1>1, <1>8, <2>1
  <2>3. \A e \in Radios : down'[e] = down[e]
    BY <1>1, <1>2, <1>8, RadiosPorts DEF Types, DownTypes
  <2> QED BY <1>5, <1>8, <2>2, <2>3
<1> QED BY <1>3, <1>4, <1>6, <1>7, <1>8 DEF Op

\* A connection whose end is noticed.
LEMMA CloseView ==
    ASSUME Types, Ownership, Connected, NEW p \in socks, NEW x, x = conn(p), active(p),
           rfLink[x] = "closed", close(p), UNCHANGED rfLink
    PROVE  /\ x \in Radios /\ PortOf(x) = p /\ x \in Unnoticed
           /\ Unnoticed' = Unnoticed \ {x}
           /\ Unread' = [Unread EXCEPT ![x] = <<>>]
           /\ Links' = Links /\ Received' = Received
<1>1. x # None /\ p \in Ports BY PortsInPorts DEF active
<1>2. x \in Radios /\ x \in Clients /\ PortOf(x) = p /\ Held(x) BY <1>1, ConnUnread
<1>3. /\ Keep(p, None) /\ UNCHANGED <<up, down>> /\ \A q \in Ports \ {p} : buf'[q] = buf[q]
  BY <1>1 DEF close, Types, BufTypes
<1>4. PICK c \in {None, x} : c = None OBVIOUS
<1>5. Keep(p, c) BY <1>3, <1>4
<1>6. (\A e \in Clients \ {x} : Held(e)' <=> Held(e)) /\ ~Held(x)'
  BY <1>1, <1>4, <1>5, KeepHeld DEF Connected
<1>7. x \in Unnoticed BY <1>2 DEF Unnoticed
<1>8. Unnoticed' = Unnoticed \ {x} BY <1>6, RadiosPorts DEF Unnoticed
<1>9. \A e \in Radios \ {x} : Unread'[e] = Unread[e]
  BY <1>1, <1>3, <1>5, OthersUnread
<1>10. Unread'[x] = <<>>
  <2>1. csock'[PortOf(x)] # x BY <1>6 DEF Held
  <2> QED BY <1>2, <1>6, <2>1 DEF Unread
<1>11. Unread' = [Unread EXCEPT ![x] = <<>>]
  <2>1. Unread = [e \in Radios |-> Unread[e]] BY UnreadDomain
  <2>2. [Unread EXCEPT ![x] = <<>>] = [e \in Radios |-> IF e = x THEN <<>> ELSE Unread[e]]
    BY <2>1
  <2>3. Unread' = [e \in Radios |-> Unread'[e]] BY UnreadDomain
  <2> QED BY <1>9, <1>10, <2>2, <2>3
<1>12. Links' = Links /\ Received' = Received BY <1>3 DEF Links, Received
<1> QED BY <1>2, <1>7, <1>8, <1>11, <1>12

\* What one recv does: the messages that have been received and those still in
\* the socket follow one another as before.
LEMMA RecvFront ==
    ASSUME Types, NEW p \in Ports, active(p), NEW x \in Clients, x = conn(p), Recv(p),
           buf[p] \in Seq(Packet), up[x] \in Seq(Packet)
    PROVE  /\ \A e \in Clients \ {x} : up'[e] = up[e]
           /\ filled(p) = <<>> => UNCHANGED up
           /\ filled(p) # <<>> =>
                 /\ buf[p] \o up[x] # <<>> /\ Head(buf[p] \o up[x]) = Head(filled(p))
                 /\ Tail(buf[p] \o up[x]) = Tail(filled(p)) \o up'[x]
<1>1. PICK b \in Seq(Packet) : b = buf[p] OBVIOUS
<1>2. PICK u \in Seq(Packet) : u = up[x] OBVIOUS
<1>3. PICK k : k = taken(p) OBVIOUS
<1>4. k = (IF Len(u) < RecvMax THEN Len(u) ELSE RecvMax) /\ Len(u) \in Nat /\ RecvMax \in Nat \ {0}
  BY <1>2, <1>3, RadioAssumption DEF taken
<1>5. k \in 0..Len(u) BY <1>4
<1>6. PICK a \in Seq(Packet) : a = SubSeq(u, 1, k) BY <1>2, <1>3, TakenTyped
<1>7. PICK z \in Seq(Packet) : z = SubSeq(u, k + 1, Len(u)) BY <1>2, <1>3, TakenTyped
<1>8. Len(a) = k /\ Len(z) = Len(u) - k BY <1>5, <1>6, <1>7
<1>9. u = a \o z
  <2>1. \A i \in 1..Len(a) : a[i] = u[i] BY <1>5, <1>6, <1>8
  <2>2. \A i \in 1..Len(z) : z[i] = u[k + i] BY <1>5, <1>7, <1>8
  <2>3. a \o z \in Seq(Packet) /\ Len(a \o z) = Len(a) + Len(z)
        /\ \A i \in 1..(Len(a) + Len(z)) : (a \o z)[i] = IF i <= Len(a) THEN a[i] ELSE z[i - Len(a)]
    BY ConcatProperties
  <2>4. PICK v \in Seq(Packet) : v = a \o z BY <2>3
  <2>5. Len(v) = Len(u)
    <3>1. Len(v) = Len(a) + Len(z) BY <2>3, <2>4
    <3> QED BY <1>4, <1>5, <1>8, <3>1
  <2>6. ASSUME NEW i \in 1..Len(u) PROVE v[i] = u[i]
    <3>1. CASE i <= k
      <4>1. i \in 1..Len(a) BY <1>5, <1>8, <3>1
      <4> QED BY <1>5, <1>8, <2>1, <2>3, <2>4, <3>1, <4>1
    <3>2. CASE ~(i <= k)
      <4>1. i - k \in 1..Len(z) /\ k + (i - k) = i BY <1>5, <1>8, <3>2
      <4>2. z[i - k] = u[i] BY <2>2, <4>1
      <4>3. v[i] = z[i - k] BY <1>5, <1>8, <2>3, <2>4, <3>2
      <4> QED BY <4>2, <4>3
    <3> QED BY <3>1, <3>2
  <2>7. v = u BY <2>5, <2>6, SeqEqual
  <2> QED BY <2>4, <2>7
<1>10. PICK w \in Seq(Packet) : w = b \o a
  <2>1. b \o a \in Seq(Packet) BY ConcatProperties
  <2> QED BY <2>1
<1>11. filled(p) = w BY <1>1, <1>2, <1>3, <1>6, <1>10 DEF filled
<1>12. up'[x] = z /\ \A e \in Clients \ {x} : up'[e] = up[e]
  BY <1>2, <1>3, <1>7 DEF Recv, Types, UpTypes
<1>13. CASE w # <<>>
  <2>1. b \o u = w \o z
    <3>1. b \o (a \o z) = (b \o a) \o z OBVIOUS
    <3> QED BY <1>9, <1>10, <3>1
  <2>2. w \o z # <<>> /\ Head(w \o z) = Head(w) /\ Tail(w \o z) = Tail(w) \o z BY <1>13
  <2> QED BY <1>1, <1>2, <1>11, <1>12, <1>13, <2>1, <2>2
<1>14. CASE w = <<>>
  <2>1. a = <<>>
    <3>1. Len(b \o a) = Len(b) + Len(a) BY ConcatProperties
    <3>2. Len(b) \in Nat /\ Len(a) \in Nat /\ Len(w) = 0 BY <1>14
    <3>3. Len(a) = 0 BY <1>10, <3>1, <3>2
    <3> QED BY <3>3
  <2>2. k = 0 /\ Len(u) = 0 BY <1>4, <1>8, <2>1
  <2>3. z = u BY <1>5, <1>7, <1>8, <2>2
  <2>4. UNCHANGED up BY <1>2, <1>3, <1>7, <2>3 DEF Recv, Types, UpTypes
  <2> QED BY <1>11, <1>12, <1>14, <2>4
<1> QED BY <1>13, <1>14

\* A message that is taken from the front of what its sender has not got read.
LEMMA ReadView ==
    ASSUME Types, Ownership, Connected, NEW p \in socks, NEW x, x = conn(p),
           NEW m, ReadMsg(p, m), UNCHANGED rfLink
    PROVE  /\ (x \in Radios /\ Links[x] = "open") \/ x \in Unnoticed
           /\ Unread[x] # <<>> /\ m = Head(Unread[x]) /\ m \in Packet
           /\ Unread' = [Unread EXCEPT ![x] = Tail(@)]
           /\ Links' = Links /\ Unnoticed' = Unnoticed /\ Received' = Received
<1>1. active(p) /\ x # None /\ p \in Ports BY PortsInPorts DEF ReadMsg, active
<1>2. /\ x \in Radios /\ x \in Clients /\ PortOf(x) = p /\ Held(x)
      /\ Unread[x] = buf[p] \o up[x] /\ buf[p] \in Seq(Packet) /\ up[x] \in Seq(Packet)
  BY <1>1, ConnUnread
<1>3. /\ Recv(p) /\ filled(p) # <<>> /\ m = Head(filled(p))
      /\ buf' = [buf EXCEPT ![p] = Tail(filled(p))]
  BY DEF ReadMsg
<1>4. /\ Keep(p, x) /\ UNCHANGED down /\ \A q \in Ports \ {p} : buf'[q] = buf[q]
      /\ buf'[p] = Tail(filled(p))
      /\ \A e \in Clients \ {x} : up'[e] = up[e]
  BY <1>1, <1>3 DEF Recv, Types, BufTypes, UpTypes
<1>5. PICK c \in {None, x} : c = x OBVIOUS
<1>6. Keep(p, c) BY <1>4, <1>5
<1>7. (\A e \in Clients \ {x} : Held(e)' <=> Held(e)) /\ Held(x)'
  BY <1>1, <1>5, <1>6, KeepHeld DEF Connected
<1>8. (x \in Radios /\ Links[x] = "open") \/ x \in Unnoticed
  <2>1. rfLink[x] # "unused" BY <1>2 DEF Connected, Lives
  <2> QED BY <1>2, <2>1 DEF Types, ClientTypes, Links, Unnoticed
<1>9. Unnoticed' = Unnoticed BY <1>2, <1>7, RadiosPorts DEF Unnoticed
<1>10. \A e \in Radios \ {x} : Unread'[e] = Unread[e]
  BY <1>1, <1>4, <1>6, OthersUnread, RadiosPorts
<1>11. /\ Unread[x] # <<>> /\ Head(Unread[x]) = Head(filled(p))
       /\ Tail(Unread[x]) = Tail(filled(p)) \o up'[x]
  BY <1>1, <1>2, <1>3, RecvFront
<1>12. Unread'[x] = Tail(Unread[x])
  <2>1. csock'[p] = x BY <1>1, <1>4 DEF Keep, Types, SocketTypes
  <2>2. Unread'[x] = buf'[p] \o up'[x] BY <1>2, <2>1 DEF Unread
  <2> QED BY <1>4, <1>11, <2>2
<1>13. Unread' = [Unread EXCEPT ![x] = Tail(@)]
  <2>1. Unread = [e \in Radios |-> Unread[e]] BY UnreadDomain
  <2>2. [Unread EXCEPT ![x] = Tail(@)]
            = [e \in Radios |-> IF e = x THEN Tail(Unread[x]) ELSE Unread[e]]
    BY <2>1
  <2>3. Unread' = [e \in Radios |-> Unread'[e]] BY UnreadDomain
  <2> QED BY <1>10, <1>12, <2>2, <2>3
<1>14. m \in Packet BY ReadMsgTyped DEF Types
<1>15. Links' = Links /\ Received' = Received BY <1>4 DEF Links, Received
<1> QED BY <1>3, <1>8, <1>9, <1>11, <1>13, <1>14, <1>15

\* A message that is written to a radio.
LEMMA SentView ==
    ASSUME Types, Ownership, Connected, NEW p \in socks, NEW x, x = conn(p), x # None,
           rfLink[x] = "open", NEW m, down' = [down EXCEPT ![x] = Append(@, m)],
           Keep(p, x), UNCHANGED <<rfLink, up, buf>>
    PROVE  /\ x \in Radios /\ PortOf(x) = p /\ Links[x] = "open"
           /\ Received' = [Received EXCEPT ![x] = Append(@, m)]
           /\ UNCHANGED <<Links, Unnoticed, Unread>>
<1>1. x \in Radios /\ PortOf(x) = p BY ConnUnread
<1>2. Links[x] = "open" BY <1>1 DEF Links
<1>3. UNCHANGED <<Links, Unnoticed, Unread>> BY KeepUnread, PortsInPorts
<1>4. Received' = [Received EXCEPT ![x] = Append(@, m)]
  <2>1. Received = [e \in Radios |-> down[e]] BY DEF Received
  <2>2. Received' = [e \in Radios |-> down'[e]] BY DEF Received
  <2>3. \A e \in Radios : down'[e] = IF e = x THEN Append(down[e], m) ELSE down[e]
    BY RadiosPorts DEF Types, DownTypes
  <2>4. [Received EXCEPT ![x] = Append(@, m)]
            = [e \in Radios |-> IF e = x THEN Append(down[e], m) ELSE down[e]]
    BY <1>1, <2>1
  <2> QED BY <2>2, <2>3, <2>4
<1> QED BY <1>1, <1>2, <1>3, <1>4

-----------------------------------------------------------------------------
(* What is on the air.                                                     *)

LEMMA StillOnAir == UNCHANGED <<hearers, msg, msgs>> => OnAir' = OnAir
BY DEF OnAir

\* With nothing being sent on, that is what has been read and is to be sent.
LEMMA Quiet ==
    ASSUME Types, Sending, pc # "send"
    PROVE  OnAir = [p \in socks |-> Select(msgs, For(p))]
<1>1. hearers = <<>> BY DEF Sending
<1>2. \A p : (IF \E i \in DOMAIN hearers : hearers[i] = p THEN <<msg>> ELSE <<>>) = <<>>
  BY <1>1
<1>3. msgs \in Seq(Packet) BY DEF Types, LocalTypes
<1>4. ASSUME NEW p \in socks
      PROVE  (IF \E i \in DOMAIN hearers : hearers[i] = p THEN <<msg>> ELSE <<>>)
                 \o Select(msgs, For(p)) = Select(msgs, For(p))
  <2>1. Select(msgs, For(p)) \in Seq(Packet) BY <1>3, SelectTyped
  <2>2. <<>> \o Select(msgs, For(p)) = Select(msgs, For(p)) BY <2>1, ConcatEmptySeq
  <2> QED BY <1>2, <2>2
<1> QED BY <1>4 DEF OnAir

\* The port that is served next gets the message that is being sent on.
LEMMA SendOneOnAir ==
    ASSUME Types, Sending, SendOne, NEW p, p = Head(hearers)
    PROVE  /\ p \in socks /\ msg \in Packet
           /\ OnAir[p] # <<>> /\ Head(OnAir[p]) = msg
           /\ OnAir' = [OnAir EXCEPT ![p] = Tail(@)]
<1>1. PICK h \in Seq(socks) : h = hearers BY DEF Types, LocalTypes
<1>2. h # <<>> /\ msg \in Packet /\ msgs \in Seq(Packet) BY <1>1 DEF SendOne, Types, LocalTypes
<1>3. PICK t : t = Tail(h) OBVIOUS
<1>4. /\ DOMAIN t = 1..Len(t) /\ DOMAIN h = 1..Len(h) /\ Len(t) + 1 = Len(h) /\ Len(t) \in Nat
      /\ \A i \in 1..Len(t) : t[i] = h[i + 1]
      /\ h[1] = p /\ p \in socks
  BY <1>1, <1>2, <1>3, HeadTailProperties
<1>5. \A i, j \in 1..Len(h) : h[i] = h[j] => i = j BY <1>1, <1>4 DEF Sending
<1>6. hearers' = t /\ msgs' = msgs /\ (t # <<>> => msg' = msg)
  BY <1>1, <1>3 DEF SendOne
<1>7. \A i \in DOMAIN hearers' : hearers'[i] # p
  <2> SUFFICES ASSUME NEW i \in 1..Len(t), t[i] = p PROVE FALSE BY <1>4, <1>6
  <2>1. i + 1 \in 1..Len(h) /\ 1 \in 1..Len(h) /\ i + 1 # 1 BY <1>4
  <2> QED BY <1>4, <1>5, <2>1
<1>8. ASSUME NEW q, q # p
      PROVE  (\E i \in DOMAIN hearers' : hearers'[i] = q) <=> (\E i \in DOMAIN hearers : hearers[i] = q)
  <2>1. ASSUME NEW i \in 1..Len(t), t[i] = q PROVE \E j \in 1..Len(h) : h[j] = q
    <3>1. i + 1 \in 1..Len(h) BY <1>4
    <3> QED BY <1>4, <2>1, <3>1
  <2>2. ASSUME NEW i \in 1..Len(h), h[i] = q PROVE \E j \in 1..Len(t) : t[j] = q
    <3>1. i - 1 \in 1..Len(t) /\ (i - 1) + 1 = i BY <1>4, <1>8, <2>2
    <3> QED BY <1>4, <2>2, <3>1
  <2> QED BY <1>1, <1>4, <1>6, <2>1, <2>2
<1>9. PICK s \in Seq(Packet) : s = Select(msgs, For(p)) BY <1>2, SelectTyped
<1>10. \E i \in DOMAIN hearers : hearers[i] = p
  <2>1. 1 \in 1..Len(h) BY <1>4
  <2> QED BY <1>1, <1>4, <2>1
<1>11. OnAir[p] = <<msg>> \o s BY <1>4, <1>9, <1>10 DEF OnAir
<1>12. OnAir'[p] = s
  <2>1. OnAir'[p] = <<>> \o s BY <1>4, <1>6, <1>7, <1>9 DEF OnAir
  <2> QED BY <2>1, ConcatEmptySeq
<1>13. PICK m \in Packet : m = msg BY <1>2
<1>14. <<m>> \o s # <<>> /\ Head(<<m>> \o s) = m /\ Tail(<<m>> \o s) = s OBVIOUS
<1>15. ASSUME NEW q \in socks, q # p PROVE OnAir'[q] = OnAir[q]
  <2>1. CASE \E i \in DOMAIN hearers : hearers[i] = q
    <3>1. \E i \in DOMAIN hearers' : hearers'[i] = q BY <1>8, <1>15, <2>1
    <3>2. msg' = msg
      <4>1. t # <<>> BY <1>6, <3>1
      <4> QED BY <1>6, <4>1
    <3> QED BY <1>6, <2>1, <3>1, <3>2 DEF OnAir
  <2>2. CASE ~\E i \in DOMAIN hearers : hearers[i] = q
    <3>1. ~\E i \in DOMAIN hearers' : hearers'[i] = q BY <1>8, <1>15, <2>2
    <3> QED BY <1>6, <2>2, <3>1 DEF OnAir
  <2> QED BY <2>1, <2>2
<1>16. OnAir' = [OnAir EXCEPT ![p] = Tail(@)]
  <2>1. OnAir = [q \in socks |-> OnAir[q]] /\ OnAir' = [q \in socks |-> OnAir'[q]] BY DEF OnAir
  <2>2. [OnAir EXCEPT ![p] = Tail(@)] = [q \in socks |-> IF q = p THEN Tail(OnAir[p]) ELSE OnAir[q]]
    BY <2>1
  <2>3. OnAir'[p] = Tail(OnAir[p]) BY <1>11, <1>12, <1>13, <1>14
  <2> QED BY <1>15, <2>1, <2>2, <2>3
<1> QED BY <1>2, <1>4, <1>11, <1>13, <1>14, <1>16

-----------------------------------------------------------------------------
(* Every step of the emulator is a step of the medium, or none.            *)

Inv == Types /\ Ownership /\ Connected /\ Sending

AirStep == [Air!Next]_(Air!vars)

LEMMA NoAirStep == UNCHANGED View /\ OnAir' = OnAir => AirStep
BY DEF View, AirStep, Air!vars

LEMMA ReadOneIsAirStep == Inv /\ ReadOne => AirStep
<1> SUFFICES ASSUME Inv, ReadOne PROVE AirStep OBVIOUS
<1> USE DEF Inv
<1>1. port \in socks /\ port \in Ports /\ pc = "read" BY PortsInPorts DEF ReadOne, Types, LocalTypes
<1>2. PICK p \in socks : p = port BY <1>1
<1>3. PICK x : x = conn(p) OBVIOUS
<1>4. UNCHANGED <<rfLink, hearers, msg>> BY DEF ReadOne, clientVars
<1>5. CASE ReadMsg(port, Head(filled(port))) /\ msgs' = Append(msgs, Head(filled(port)))
  <2>1. PICK m : m = Head(filled(port)) OBVIOUS
  <2>2. /\ (x \in Radios /\ Links[x] = "open") \/ x \in Unnoticed
        /\ Unread[x] # <<>> /\ m = Head(Unread[x]) /\ m \in Packet
        /\ Unread' = [Unread EXCEPT ![x] = Tail(@)]
        /\ Links' = Links /\ Unnoticed' = Unnoticed /\ Received' = Received
    BY <1>2, <1>3, <1>4, <1>5, <2>1, ReadView
  <2>3. msgs \in Seq(Packet) /\ msgs' = Append(msgs, m) BY <1>5, <2>1 DEF Types, LocalTypes
  <2>4. OnAir = [q \in socks |-> Select(msgs, For(q))] BY <1>1, Quiet
  <2>5. pc' # "send" /\ Types' /\ Sending'
    <3>1. pc' # "send" BY <1>1 DEF ReadOne
    <3>2. Types' BY ReadOneTyped
    <3>3. Sending' BY <1>1, <1>4, <3>1 DEF ReadOne, Sending
    <3> QED BY <3>1, <3>2, <3>3
  <2>6. OnAir' = [q \in socks |-> Select(msgs', For(q))]
    <3>1. hearers' = <<>> BY <1>1, <1>4 DEF Sending
    <3>2. ASSUME NEW q \in socks
          PROVE  (IF \E i \in DOMAIN hearers' : hearers'[i] = q THEN <<msg'>> ELSE <<>>)
                     \o Select(msgs', For(q)) = Select(msgs', For(q))
      <4>1. msgs' \in Seq(Packet) BY <2>5 DEF Types, LocalTypes
      <4>2. Select(msgs', For(q)) \in Seq(Packet) BY <4>1, SelectTyped
      <4>3. <<>> \o Select(msgs', For(q)) = Select(msgs', For(q)) BY <4>2, ConcatEmptySeq
      <4> QED BY <3>1, <4>3
    <3> QED BY <3>2 DEF OnAir
  <2>7. OnAir' = [q \in socks |-> IF q \in Air!Reach(m) THEN Append(OnAir[q], m) ELSE OnAir[q]]
    <3>1. ASSUME NEW q \in socks
          PROVE  Select(msgs', For(q)) = IF q \in Air!Reach(m) THEN Append(OnAir[q], m) ELSE OnAir[q]
      <4>1. Select(Append(msgs, m), For(q)) = IF m \in For(q) THEN Append(Select(msgs, For(q)), m)
                                                              ELSE Select(msgs, For(q))
        <5>1. PICK P : P = For(q) OBVIOUS
        <5>2. PICK s \in Seq(Packet) : s = msgs BY <2>3
        <5>3. PICK e \in Packet : e = m BY <2>2
        <5>4. Select(Append(s, e), P) = IF e \in P THEN Append(Select(s, P), e) ELSE Select(s, P)
          BY SelectAppend
        <5> QED BY <5>1, <5>2, <5>3, <5>4
      <4>2. q \in Air!Reach(m) <=> m \in For(q) BY <2>2, ReachIsFor
      <4> QED BY <2>3, <2>4, <4>1, <4>2
    <3> QED BY <2>6, <3>1
  <2>8. Air!Transmit(x)
    <3>1. x \in Radios /\ (Air!Open(x) \/ x \in Unnoticed)
      BY <2>2 DEF Air!Open, Unnoticed
    <3> QED BY <2>2, <2>7, <3>1, RadiosPorts DEF Air!Transmit
  <2>9. x \in Radios BY <2>2 DEF Unnoticed
  <2> QED BY <2>8, <2>9, RadiosPorts DEF AirStep, Air!Next
<1>6. CASE ReadNone(port) /\ UNCHANGED msgs
  <2>1. OnAir' = OnAir BY <1>4, <1>6, StillOnAir
  <2>2. CASE UNCHANGED sockVars
    <3>1. \A e : Held(e)' <=> Held(e) BY <2>2 DEF sockVars, Held
    <3>2. UNCHANGED View
      BY <1>4, <2>2, <3>1 DEF View, sockVars, Links, Unnoticed, Unread, Received
    <3> QED BY <2>1, <3>2, NoAirStep
  <2>3. CASE active(port) /\ AtEnd(port) /\ close(port)
    <3>1. rfLink[x] = "closed" BY <1>2, <1>3, <2>3 DEF AtEnd
    <3>2. /\ x \in Radios /\ x \in Unnoticed
          /\ Unnoticed' = Unnoticed \ {x}
          /\ Unread' = [Unread EXCEPT ![x] = <<>>]
          /\ Links' = Links /\ Received' = Received
      BY <1>2, <1>3, <1>4, <2>3, <3>1, CloseView
    <3>3. Air!Notice(x) BY <2>1, <3>2 DEF Air!Notice, Air!Forget
    <3> QED BY <3>2, <3>3, RadiosPorts DEF AirStep, Air!Next
  <2>4. CASE active(port) /\ filled(port) = <<>> /\ Recv(port) /\ UNCHANGED buf
    <3>1. conn(port) \in Clients BY <1>1, <2>4, Connection DEF active, Types
    <3>2. UNCHANGED up
      <4>1. conn(port) # None BY <2>4 DEF active
      <4>2. buf[port] \in Seq(Packet) /\ up[conn(port)] \in Seq(Packet)
        BY <1>2, <4>1, ConnUnread
      <4> QED BY <1>1, <2>4, <3>1, <4>2, RecvFront
    <3>3. UNCHANGED View BY <1>1, <1>4, <2>4, <3>2, KeepView DEF Recv
    <3> QED BY <2>1, <3>3, NoAirStep
  <2> QED BY <1>6, <2>2, <2>3, <2>4 DEF ReadNone
<1> QED BY <1>5, <1>6 DEF ReadOne

LEMMA RouteIsAirStep == Inv /\ Route => AirStep
<1> SUFFICES ASSUME Inv, Route PROVE AirStep OBVIOUS
<1> USE DEF Inv
<1>1. \A e : Held(e)' <=> Held(e) BY DEF Route, sockVars, Held
<1>2. UNCHANGED View
  BY <1>1 DEF Route, View, sockVars, clientVars, Links, Unnoticed, Unread, Received
<1>3. PICK s \in Seq(Packet) : s = msgs BY DEF Types, LocalTypes
<1>4. s # <<>> /\ pc = "poll" /\ hearers = <<>> BY <1>3 DEF Route, Sending
<1>5. PICK m : m = Head(s) OBVIOUS
<1>6. m \in Packet /\ Tail(s) \in Seq(Packet) BY <1>4, <1>5
<1>7. msgs' = Tail(s) /\ msg' = m BY <1>3, <1>5 DEF Route
<1>8. OnAir = [q \in socks |-> Select(msgs, For(q))] BY <1>4, Quiet
<1>9. ASSUME NEW q \in socks
      PROVE  (\E i \in DOMAIN hearers' : hearers'[i] = q) <=> m \in For(q)
  <2>1. CASE ~direct(m) /\ hearers' = DevOrder
    <3>1. m \in For(q) <=> q \in Devices BY <1>6, <2>1 DEF For
    <3> QED BY <2>1, <3>1, RadioAssumption
  <2>2. CASE direct(m) /\ m.tgt \in socks /\ hearers' = <<m.tgt>>
    <3>1. m \in For(q) <=> q = m.tgt BY <1>6, <2>2 DEF For
    <3>2. DOMAIN hearers' = 1..1 /\ hearers'[1] = m.tgt BY <2>2
    <3> QED BY <3>1, <3>2
  <2>3. CASE direct(m) /\ m.tgt \notin socks /\ UNCHANGED hearers
    <3>1. m \notin For(q) BY <2>3 DEF For
    <3> QED BY <1>4, <2>3, <3>1
  <2> QED BY <1>3, <1>5, <2>1, <2>2, <2>3 DEF Route
<1>10. ASSUME NEW q \in socks PROVE OnAir'[q] = OnAir[q]
  <2>1. PICK P : P = For(q) OBVIOUS
  <2>2. Select(s, P) = IF m \in P THEN <<m>> \o Select(Tail(s), P) ELSE Select(Tail(s), P)
    BY <1>4, <1>5, SelectTail
  <2>3. PICK r \in Seq(Packet) : r = Select(Tail(s), P) BY <1>6, SelectTyped
  <2>4. <<>> \o r = r BY <2>3, ConcatEmptySeq
  <2>5. OnAir'[q] = (IF m \in P THEN <<m>> ELSE <<>>) \o r
    BY <1>7, <1>9, <2>1, <2>3 DEF OnAir
  <2>6. OnAir[q] = Select(s, P) BY <1>3, <1>8, <2>1
  <2> QED BY <2>2, <2>3, <2>4, <2>5, <2>6
<1>11. OnAir' = OnAir
  <2>1. OnAir = [q \in socks |-> OnAir[q]] /\ OnAir' = [q \in socks |-> OnAir'[q]] BY DEF OnAir
  <2> QED BY <1>10, <2>1
<1> QED BY <1>2, <1>11, NoAirStep

LEMMA SendOneIsAirStep == Inv /\ SendOne => AirStep
<1> SUFFICES ASSUME Inv, SendOne PROVE AirStep OBVIOUS
<1> USE DEF Inv
<1>1. PICK p : p = Head(hearers) OBVIOUS
<1>2. /\ p \in socks /\ OnAir[p] # <<>> /\ Head(OnAir[p]) = msg
      /\ OnAir' = [OnAir EXCEPT ![p] = Tail(@)]
  BY <1>1, SendOneOnAir
<1>3. PICK x : x = conn(p) OBVIOUS
<1>4. rfLink' = rfLink BY DEF SendOne, clientVars
<1>5. p \in Air!Ports BY <1>2, RadiosPorts
<1>6. Air!Arrives(p) BY <1>2 DEF Air!Arrives
<1>7. CASE ~active(p) /\ UNCHANGED sockVars
  <2>1. \A e : Held(e)' <=> Held(e) BY <1>7 DEF sockVars, Held
  <2>2. UNCHANGED View
    BY <1>4, <1>7, <2>1 DEF View, sockVars, Links, Unnoticed, Unread, Received
  <2>3. ASSUME NEW c \in Radios, PortOf(c) = p PROVE rfLink[c] # "open"
    <3>1. conn(p) = None BY <1>7 DEF active
    <3>2. waiting[p] \in Seq(Clients) BY <1>2, PortsInPorts DEF Types, SocketTypes
    <3>3. csock[p] = None /\ waiting[p] = <<>>
      <4>1. csock[p] = None BY <3>1 DEF conn
      <4>2. ASSUME waiting[p] # <<>> PROVE FALSE
        <5>1. conn(p) = Head(waiting[p]) BY <4>1, <4>2 DEF conn
        <5>2. Head(waiting[p]) \in Clients BY <3>2, <4>2
        <5> QED BY <3>1, <5>1, <5>2, RadioAssumption
      <4> QED BY <4>1, <4>2
    <3>4. ~Held(c) BY <2>3, <3>3, RadiosPorts, RadioAssumption DEF Held
    <3> QED BY <3>4, RadiosPorts DEF Connected, Lives
  <2>4. Air!Holder(p) = {} BY <2>3, RadiosPorts DEF Air!Holder, Air!Open, Links
  <2>5. Air!Miss(p) BY <1>6, <2>2, <2>4 DEF Air!Miss, View
  <2> QED BY <1>5, <2>5 DEF AirStep, Air!Next
<1>8. CASE active(p) /\ rfLink[conn(p)] = "closed" /\ close(p)
  <2>1. /\ x \in Radios /\ PortOf(x) = p /\ x \in Unnoticed
        /\ Unnoticed' = Unnoticed \ {x}
        /\ Unread' = [Unread EXCEPT ![x] = <<>>]
        /\ Links' = Links /\ Received' = Received
    BY <1>2, <1>3, <1>4, <1>8, CloseView
  <2>2. Air!Forget(x) /\ Air!PortOf(x) = p BY <2>1, RadiosPorts DEF Air!Forget
  <2>3. Air!Miss(p) BY <1>6, <2>1, <2>2 DEF Air!Miss
  <2> QED BY <1>5, <2>3 DEF AirStep, Air!Next
<1>9. CASE /\ active(p) /\ rfLink[conn(p)] = "open"
           /\ down' = [down EXCEPT ![conn(p)] = Append(@, msg)]
           /\ Keep(p, conn(p)) /\ UNCHANGED <<up, buf>>
  <2>1. x # None /\ rfLink[x] = "open" BY <1>3, <1>9 DEF active
  <2>2. PICK m : m = msg OBVIOUS
  <2>3. /\ down' = [down EXCEPT ![x] = Append(@, m)] /\ Keep(p, x)
        /\ UNCHANGED <<rfLink, up, buf>>
    BY <1>3, <1>4, <1>9, <2>2
  <2>4. /\ x \in Radios /\ PortOf(x) = p /\ Links[x] = "open"
        /\ Received' = [Received EXCEPT ![x] = Append(@, m)]
        /\ UNCHANGED <<Links, Unnoticed, Unread>>
    BY <1>2, <1>3, <2>1, <2>3, SentView
  <2>5. Air!PortOf(x) = p BY <2>4, RadiosPorts
  <2>6. Air!Deliver(x) BY <1>2, <1>6, <2>2, <2>4, <2>5 DEF Air!Deliver, Air!Open
  <2> QED BY <2>4, <2>6, RadiosPorts DEF AirStep, Air!Next
<1> QED BY <1>1, <1>7, <1>8, <1>9 DEF SendOne, SendMsg

LEMMA EmulatorIsAirStep == MitmClients = {} /\ Inv /\ Emulator => AirStep
<1> SUFFICES ASSUME MitmClients = {}, Inv, Emulator PROVE AirStep OBVIOUS
<1> USE DEF Inv
<1>1. PROBE \in Ports \ socks /\ RECVR \in Ports \ socks BY PortsApart, PortsInPorts
<1>2. CASE ProbeRead
  <2>1. Op(PROBE) BY <1>2 DEF ProbeRead, Op, AtEnd
  <2>2. UNCHANGED View BY <1>1, <1>2, <2>1, OtherPortView DEF ProbeRead
  <2> QED BY <1>2, <2>2, NoAirStep, StillOnAir DEF ProbeRead
<1>3. CASE RecvrSend
  <2>1. Op(RECVR)
    <3>1. CASE SendMsg(RECVR, Trace) BY <1>1, <3>1, SendMsgIsOp
    <3>2. CASE ~SendMsg(RECVR, Trace) BY <1>3, <3>2 DEF RecvrSend, Op
    <3> QED BY <3>1, <3>2
  <2>2. UNCHANGED View BY <1>1, <1>3, <2>1, OtherPortView DEF RecvrSend
  <2> QED BY <1>3, <2>2, NoAirStep, StillOnAir DEF RecvrSend
<1>4. CASE PollPort
  <2>1. PICK p : p = Head(todo) OBVIOUS
  <2>2. p \in Ports BY <1>4, <2>1, PortsInPorts DEF PollPort, Types, LocalTypes
  <2>3. CASE Keep(p, conn(p)) BY <1>4, <2>2, <2>3, KeepView, NoAirStep, StillOnAir DEF PollPort, clientVars
  <2>4. CASE UNCHANGED <<csock, waiting>>
    <3>1. \A e : Held(e)' <=> Held(e) BY <2>4 DEF Held
    <3>2. UNCHANGED View
      BY <1>4, <2>4, <3>1 DEF PollPort, clientVars, View, Links, Unnoticed, Unread, Received
    <3> QED BY <1>4, <3>2, NoAirStep, StillOnAir DEF PollPort
  <2> QED BY <1>4, <2>1, <2>3, <2>4 DEF PollPort
<1>5. CASE MitmActive
  <2>1. ~active(MITM) BY Connection, PortsApart, PortsInPorts DEF active, Types
  <2>2. UNCHANGED <<csock, waiting>> BY <1>5, <2>1 DEF MitmActive
  <2>3. \A e : Held(e)' <=> Held(e) BY <2>2 DEF Held
  <2>4. UNCHANGED View
    BY <1>5, <2>2, <2>3 DEF MitmActive, clientVars, View, Links, Unnoticed, Unread, Received
  <2> QED BY <1>5, <2>4, NoAirStep, StillOnAir DEF MitmActive
<1>6. ~ForwardOne /\ ~MitmReadOne BY DEF Sending, ForwardOne, MitmReadOne
<1> QED BY <1>2, <1>3, <1>4, <1>5, <1>6, ReadOneIsAirStep, RouteIsAirStep, SendOneIsAirStep
        DEF Emulator

-----------------------------------------------------------------------------
(* Every step of a client is one of the medium's radios, or none.          *)

\* Nothing of a client's that is no radio is seen.
LEMMA OtherClientView ==
    ASSUME Types, NEW c \in Clients \ Radios, UNCHANGED <<csock, buf>>,
           \A e \in Clients \ {c} : rfLink'[e] = rfLink[e] /\ up'[e] = up[e] /\ down'[e] = down[e],
           \A p \in Ports \ {PortOf(c)} : waiting'[p] = waiting[p]
    PROVE  UNCHANGED View
<1>1. \A e \in Radios : PortOf(e) # PortOf(c)
  <2>1. PortOf(c) \notin socks BY PortsApart DEF Radios
  <2> QED BY <2>1, RadiosPorts
<1>2. \A e \in Radios : Held(e)' <=> Held(e) BY <1>1, RadiosPorts DEF Held
<1>3. \A e \in Radios : rfLink'[e] = rfLink[e] /\ up'[e] = up[e] /\ down'[e] = down[e]
  BY RadiosPorts
<1>4. Links' = Links /\ Received' = Received BY <1>3 DEF Links, Received
<1>5. Unnoticed' = Unnoticed BY <1>2, <1>3 DEF Unnoticed
<1>6. \A e \in Radios : Unread'[e] = Unread[e] BY <1>2, <1>3 DEF Unread
<1> QED BY <1>4, <1>5, <1>6, UnreadDomain DEF View

LEMMA ConnectUnread ==
    ASSUME Types, Connected, NEW c \in Clients, Connect(c)
    PROVE  /\ UNCHANGED Unread
           /\ \A e \in Clients \ {c} : Held(e)' <=> Held(e)
<1>1. UNCHANGED <<up, down, csock, buf>> BY DEF Connect
<1>2. PICK p \in Ports : p = PortOf(c) BY PortsApart
<1>3. /\ \A q \in Ports \ {p} : waiting'[q] = waiting[q]
      /\ waiting'[p] = Append(waiting[p], c)
      /\ rfLink[c] = "unused"
  BY <1>2 DEF Connect, Types, SocketTypes
<1>4. ASSUME NEW e \in Clients \ {c} PROVE Held(e)' <=> Held(e)
  <2>1. CASE PortOf(e) # p BY <1>1, <1>3, <2>1, PortsApart DEF Held
  <2>2. CASE PortOf(e) = p
    <3>1. PICK w \in Seq(Clients) : w = waiting[p] BY DEF Types, SocketTypes
    <3>2. PICK v : v = Append(w, c) OBVIOUS
    <3>3. /\ Len(v) = Len(w) + 1 /\ Len(w) \in Nat /\ v[Len(w) + 1] = c
          /\ \A i \in 1..Len(w) : v[i] = w[i]
          /\ DOMAIN v = 1..Len(v) /\ DOMAIN w = 1..Len(w)
      BY <3>2, AppendProperties
    <3>4. (\E i \in 1..Len(v) : v[i] = e) <=> (\E i \in 1..Len(w) : w[i] = e)
      <4>1. \A i \in 1..Len(v) : i = Len(w) + 1 \/ i \in 1..Len(w) BY <3>3
      <4>2. \A i \in 1..Len(w) : i \in 1..Len(v) BY <3>3
      <4> QED BY <3>3, <4>1, <4>2
    <3> QED BY <1>1, <1>3, <2>2, <3>1, <3>2, <3>3, <3>4 DEF Held
  <2> QED BY <2>1, <2>2
<1>5. ~Held(c) /\ up[c] = <<>> BY <1>3 DEF Connected, Lives
<1>6. ASSUME NEW e \in Radios PROVE Unread'[e] = Unread[e]
  <2>1. CASE e # c BY <1>1, <1>4, <2>1, RadiosPorts DEF Unread
  <2>2. CASE e = c
    <3>1. csock[PortOf(c)] # c BY <1>5 DEF Held
    <3>2. Unread[e] = <<>> BY <1>5, <2>2, <3>1 DEF Unread
    <3>3. Unread'[e] = IF Held(c)' THEN up'[c] ELSE <<>> BY <1>1, <2>2, <3>1 DEF Unread
    <3> QED BY <1>1, <1>5, <3>2, <3>3
  <2> QED BY <2>1, <2>2
<1>7. UNCHANGED Unread BY <1>6, UnreadDomain
<1> QED BY <1>4, <1>7

LEMMA ConnectIsAirStep == \A c \in Clients : Inv /\ Connect(c) => AirStep
<1> SUFFICES ASSUME Inv, NEW c \in Clients, Connect(c) PROVE AirStep OBVIOUS
<1> USE DEF Inv
<1>1. OnAir' = OnAir BY StillOnAir DEF Connect, localVars
<1>2. UNCHANGED <<up, down, csock, buf>> BY DEF Connect
<1>3. PICK p \in Ports : p = PortOf(c) BY PortsApart
<1>4. /\ \A q \in Ports \ {p} : waiting'[q] = waiting[q]
      /\ waiting'[p] = Append(waiting[p], c)
      /\ \A e \in Clients \ {c} : rfLink'[e] = rfLink[e]
      /\ rfLink[c] = "unused" /\ rfLink'[c] = "open"
  BY <1>3 DEF Connect, Types, SocketTypes, ClientTypes
<1>5. CASE c \notin Radios
  BY <1>1, <1>2, <1>3, <1>4, <1>5, OtherClientView, NoAirStep
<1>6. CASE c \in Radios
  <2>1. Unread' = Unread /\ \A e \in Clients \ {c} : Held(e)' <=> Held(e) BY ConnectUnread
  <2>2. Links' = [Links EXCEPT ![c] = "open"]
    <3>1. \A e \in Radios : rfLink'[e] = IF e = c THEN "open" ELSE rfLink[e]
      BY <1>4, RadiosPorts
    <3> QED BY <3>1 DEF Links
  <2>3. Links[c] = "unused" BY <1>4, <1>6 DEF Links
  <2>4. Unnoticed' = Unnoticed BY <1>4, <2>1, RadiosPorts DEF Unnoticed
  <2>5. Received' = Received BY <1>2 DEF Received
  <2>6. Air!Holder(Air!PortOf(c)) = {}
    <3>1. \A e \in Radios : PortOf(e) = PortOf(c) => rfLink[e] # "open"
      BY RadiosPorts DEF Connect
    <3> QED BY <1>6, <3>1, RadiosPorts DEF Air!Holder, Air!Open, Links
  <2>7. Air!Connect(c) BY <1>1, <2>1, <2>2, <2>3, <2>4, <2>5, <2>6 DEF Air!Connect
  <2> QED BY <1>6, <2>7, RadiosPorts DEF AirStep, Air!Next
<1> QED BY <1>5, <1>6

LEMMA HangUpIsAirStep == \A c \in Clients : Inv /\ HangUp(c) => AirStep
<1> SUFFICES ASSUME Inv, NEW c \in Clients, HangUp(c) PROVE AirStep OBVIOUS
<1> USE DEF Inv
<1>1. OnAir' = OnAir BY StillOnAir DEF HangUp, localVars
<1>2. UNCHANGED <<up, waiting, csock, buf>> BY DEF HangUp
<1>3. /\ \A e \in Clients \ {c} : rfLink'[e] = rfLink[e] /\ down'[e] = down[e]
      /\ rfLink[c] = "open" /\ rfLink'[c] = "closed" /\ down'[c] = <<>>
  BY DEF HangUp, Types, ClientTypes, DownTypes
<1>4. CASE c \notin Radios BY <1>1, <1>2, <1>3, <1>4, OtherClientView, NoAirStep
<1>5. CASE c \in Radios
  <2>1. \A e : Held(e)' <=> Held(e) BY <1>2 DEF Held
  <2>2. Held(c) BY <1>3 DEF Connected, Lives
  <2>3. Links' = [Links EXCEPT ![c] = "closed"]
    <3>1. \A e \in Radios : rfLink'[e] = IF e = c THEN "closed" ELSE rfLink[e]
      BY <1>3, RadiosPorts
    <3> QED BY <3>1 DEF Links
  <2>4. Received' = [Received EXCEPT ![c] = <<>>]
    <3>1. \A e \in Radios : down'[e] = IF e = c THEN <<>> ELSE down[e]
      BY <1>3, RadiosPorts
    <3> QED BY <3>1 DEF Received
  <2>5. Unnoticed' = Unnoticed \cup {c}
    BY <1>3, <1>5, <2>1, <2>2, RadiosPorts DEF Unnoticed
  <2>6. Unread' = Unread BY <1>2, <2>1 DEF Unread
  <2>7. Links[c] = "open" BY <1>3, <1>5 DEF Links
  <2>8. Air!HangUp(c)
    BY <1>1, <2>3, <2>4, <2>5, <2>6, <2>7 DEF Air!HangUp, Air!Open
  <2> QED BY <1>5, <2>8, RadiosPorts DEF AirStep, Air!Next
<1> QED BY <1>4, <1>5

LEMMA WritesUnread ==
    ASSUME Types, Connected, NEW c \in Clients, NEW m, c \in Radios => m \in Packet, Writes(c, m)
    PROVE  /\ \A e \in Radios \ {c} : Unread'[e] = Unread[e]
           /\ c \in Radios => Unread[c] \in Seq(Packet) /\ Unread'[c] = Append(Unread[c], m)
<1>1. UNCHANGED <<rfLink, down, waiting, csock, buf>> BY DEF Writes
<1>2. rfLink[c] = "open" /\ up'[c] = Append(up[c], m) /\ \A e \in Clients \ {c} : up'[e] = up[e]
  BY DEF Writes, Types, UpTypes
<1>3. \A e : Held(e)' <=> Held(e) BY <1>1 DEF Held
<1>4. \A e \in Radios \ {c} : Unread'[e] = Unread[e] BY <1>1, <1>2, <1>3, RadiosPorts DEF Unread
<1>5. CASE c \in Radios
  <2>1. Held(c) BY <1>2 DEF Connected, Lives
  <2>2. PICK b \in Seq(Packet) : b = buf[PortOf(c)] BY <1>5, RadiosPorts DEF Types, BufTypes
  <2>3. PICK u \in Seq(Packet) : u = up[c]
    BY <1>5, RadioAssumption DEF Types, UpTypes, Radios
  <2>4. PICK n \in Packet : n = m BY <1>5
  <2>5. CASE csock[PortOf(c)] = c
    <3>1. Unread[c] = b \o u BY <1>5, <2>2, <2>3, <2>5 DEF Unread
    <3>2. Unread'[c] = b \o Append(u, n)
      BY <1>1, <1>2, <1>5, <2>2, <2>3, <2>4, <2>5 DEF Unread
    <3>3. b \o u \in Seq(Packet) /\ b \o Append(u, n) = Append(b \o u, n) BY ConcatProperties
    <3> QED BY <1>4, <2>4, <3>1, <3>2, <3>3
  <2>6. CASE csock[PortOf(c)] # c
    <3>1. Unread[c] = u BY <1>5, <2>1, <2>3, <2>6 DEF Unread
    <3>2. Held(c)' /\ csock'[PortOf(c)] # c BY <1>1, <1>3, <2>1, <2>6
    <3>3. Unread'[c] = up'[c] BY <1>5, <3>2 DEF Unread
    <3> QED BY <1>2, <1>4, <2>3, <3>1, <3>3
  <2> QED BY <2>5, <2>6
<1> QED BY <1>4, <1>5

LEMMA WritesIsAirStep ==
    ASSUME Inv, NEW c \in Clients, NEW m, c \in Radios => m \in Packet, Writes(c, m)
    PROVE  AirStep
<1> USE DEF Inv
<1>1. OnAir' = OnAir BY StillOnAir DEF Writes, localVars
<1>2. UNCHANGED <<rfLink, down, waiting, csock, buf>> BY DEF Writes
<1>3. rfLink[c] = "open" /\ up'[c] = Append(up[c], m) /\ \A e \in Clients \ {c} : up'[e] = up[e]
  BY DEF Writes, Types, UpTypes
<1>4. CASE c \notin Radios BY <1>1, <1>2, <1>3, <1>4, OtherClientView, NoAirStep
<1>5. CASE c \in Radios
  <2>1. \A e : Held(e)' <=> Held(e) BY <1>2 DEF Held
  <2>2. Held(c) BY <1>3 DEF Connected, Lives
  <2>3. Links' = Links /\ Unnoticed' = Unnoticed /\ Received' = Received
    BY <1>2, <2>1 DEF Links, Unnoticed, Received
  <2>4. \A e \in Radios \ {c} : Unread'[e] = Unread[e] BY WritesUnread
  <2>5. PICK n \in Packet : n = m BY <1>5
  <2>6. PICK s \in Seq(Packet) : Unread[c] = s /\ Unread'[c] = Append(s, n)
    BY <1>5, <2>5, WritesUnread
  <2>7. PICK t \in Seq(Packet) : t = Append(s, n)
    <3>1. Append(s, n) \in Seq(Packet) BY AppendProperties
    <3> QED BY <3>1
  <2>8. t # <<>> /\ Air!Front(t) = s
    <3>1. Len(t) = Len(s) + 1 /\ Len(s) \in Nat /\ \A i \in 1..Len(s) : t[i] = s[i]
      BY <2>7, AppendProperties
    <3>2. SubSeq(t, 1, Len(s)) \in Seq(Packet) /\ Len(SubSeq(t, 1, Len(s))) = Len(s)
          /\ \A i \in 1..Len(s) : SubSeq(t, 1, Len(s))[i] = t[i]
      BY <3>1
    <3>3. SubSeq(t, 1, Len(s)) = s BY <3>1, <3>2, SeqEqual
    <3>4. Len(t) - 1 = Len(s) BY <3>1
    <3> QED BY <3>1, <3>3, <3>4 DEF Air!Front
  <2>9. Unread' = [Unread EXCEPT ![c] = Unread'[c]]
    <3>1. Unread = [e \in Radios |-> Unread[e]] /\ Unread' = [e \in Radios |-> Unread'[e]]
      BY UnreadDomain
    <3>2. [Unread EXCEPT ![c] = Unread'[c]] = [e \in Radios |-> IF e = c THEN Unread'[c] ELSE Unread[e]]
      BY <3>1
    <3> QED BY <2>4, <3>1, <3>2
  <2>10. Links[c] = "open" BY <1>3, <1>5 DEF Links
  <2>11. Air!Write(c)
    BY <1>1, <2>3, <2>6, <2>7, <2>8, <2>9, <2>10 DEF Air!Write, Air!Open
  <2> QED BY <1>5, <2>11, RadiosPorts DEF AirStep, Air!Next
<1> QED BY <1>4, <1>5

LEMMA ReadsIsAirStep == ASSUME Inv, NEW c \in Clients, Reads(c) PROVE AirStep
<1> USE DEF Inv
<1>1. OnAir' = OnAir BY StillOnAir DEF Reads, localVars
<1>2. UNCHANGED <<rfLink, up, waiting, csock, buf>> BY DEF Reads
<1>3. /\ rfLink[c] = "open" /\ down[c] # <<>> /\ down'[c] = Tail(down[c])
      /\ \A e \in Clients \ {c} : down'[e] = down[e]
  BY DEF Reads, Types, DownTypes
<1>4. CASE c \notin Radios BY <1>1, <1>2, <1>3, <1>4, OtherClientView, NoAirStep
<1>5. CASE c \in Radios
  <2>1. \A e : Held(e)' <=> Held(e) BY <1>2 DEF Held
  <2>2. Links' = Links /\ Unnoticed' = Unnoticed /\ Unread' = Unread
    BY <1>2, <2>1 DEF Links, Unnoticed, Unread
  <2>3. Received' = [Received EXCEPT ![c] = Tail(@)]
    <3>1. \A e \in Radios : down'[e] = IF e = c THEN Tail(down[c]) ELSE down[e]
      BY <1>3, RadiosPorts
    <3> QED BY <1>5, <3>1 DEF Received
  <2>4. Links[c] = "open" /\ Received[c] # <<>> BY <1>3, <1>5 DEF Links, Received
  <2>5. Air!Read(c) BY <1>1, <2>2, <2>3, <2>4 DEF Air!Read, Air!Open
  <2> QED BY <1>5, <2>5, RadiosPorts DEF AirStep, Air!Next
<1> QED BY <1>4, <1>5

LEMMA ClientIsAirStep == \A c \in Clients : Inv /\ Client(c) => AirStep
<1> SUFFICES ASSUME Inv, NEW c \in Clients, Client(c) PROVE AirStep OBVIOUS
<1>1. CASE NewMessage(c)
  <2>1. Types BY DEF Inv
  <2>2. sent'[c] = sent[c] + 1 /\ sent[c] < MaxSent[c]
    BY <1>1, <2>1 DEF NewMessage, Types, ClientTypes
  <2>3. ASSUME NEW t \in SedTargets, c \in Boots PROVE packet(t, IdOf[c], <<c, sent'[c]>>) \in Packet
    BY <2>1, <2>2, <2>3, MessageTyped
  <2>4. ASSUME NEW t \in FaaTargets, c \in FaaClients PROVE packet(t, FAA_ID, <<c, sent'[c]>>) \in Packet
    BY <2>1, <2>2, <2>4, MessageTyped
  <2>5. c \in ProbeClients => c \notin Radios BY RadioAssumption DEF Radios
  <2> QED BY <1>1, <2>3, <2>4, <2>5, WritesIsAirStep DEF NewMessage
<1>2. CASE MitmGives(c)
  <2>1. c \notin Radios BY <1>2, RadioAssumption DEF MitmGives, Radios
  <2> QED BY <1>2, <2>1, WritesIsAirStep DEF MitmGives
<1> QED BY <1>1, <1>2, ConnectIsAirStep, HangUpIsAirStep, ReadsIsAirStep
        DEF Client, ClientReads, MitmTakes

LEMMA InitIsAirInit == Init => Air!Init
<1> SUFFICES ASSUME Init PROVE Air!Init OBVIOUS
<1>1. \A c \in Radios : ~Held(c)
  BY RadiosPorts, RadioAssumption DEF Init, Held
<1>2. Links = [c \in Radios |-> "unused"] BY RadiosPorts DEF Init, Links
<1>3. Unnoticed = {} BY <1>1 DEF Unnoticed
<1>4. Unread = [c \in Radios |-> <<>>]
  <2>1. \A c \in Radios : csock[PortOf(c)] # c /\ ~Held(c) BY <1>1 DEF Held
  <2> QED BY <2>1 DEF Unread
<1>5. OnAir = [p \in socks |-> <<>>]
  <2>1. \A p \in socks : Select(msgs, For(p)) = <<>> BY SelectNothing DEF Init
  <2>2. hearers = <<>> BY DEF Init
  <2> QED BY <2>1, <2>2 DEF OnAir
<1>6. Received = [c \in Radios |-> <<>>] BY RadiosPorts DEF Init, Received
<1> QED BY <1>2, <1>3, <1>4, <1>5, <1>6, RadiosPorts DEF Air!Init

\* As long as no man in the middle is there, the emulator is a medium for the
\* SEDs and the FAA: whatever the order of polls, of writes and reads, and of
\* connections and hang-ups, a message that is read goes to all it reaches in
\* one order and once, and it misses a port only while nobody is connected
\* there, or once for each earlier connection whose end had not been noticed.
THEOREM EmulatorIsMedium == MitmClients = {} => (Spec => IsMedium)
<1> SUFFICES ASSUME MitmClients = {} PROVE Spec => IsMedium OBVIOUS
<1>1. Init => Air!Init BY InitIsAirInit
<1>2. Init => Sending BY DEF Init, Sending
<1>3. Types /\ Sending /\ [Next]_vars => Sending' BY NextSending
<1>4. Types /\ Ownership /\ Connected /\ Sending /\ [Next]_vars => [Air!Next]_(Air!vars)
  <2> SUFFICES ASSUME Inv, [Next]_vars PROVE AirStep BY DEF Inv, AirStep
  <2>1. CASE Emulator BY <2>1, EmulatorIsAirStep
  <2>2. CASE \E c \in Clients : Client(c) BY <2>2, ClientIsAirStep
  <2>3. CASE UNCHANGED vars
    <3>1. \A e : Held(e)' <=> Held(e) BY <2>3 DEF vars, Held
    <3>2. UNCHANGED View
      BY <2>3, <3>1 DEF vars, View, Links, Unnoticed, Unread, Received
    <3> QED BY <2>3, <3>2, NoAirStep, StillOnAir DEF vars
  <2> QED BY <2>1, <2>2, <2>3 DEF Next
<1> QED BY <1>1, <1>2, <1>3, <1>4, SpecTyped, SpecOwned, SpecConnected, PTL
        DEF Spec, IsMedium, Air!Spec

-----------------------------------------------------------------------------

\* The record of what each client has heard changes nothing: all of the above
\* holds of the specification the runs check.
LEMMA RecordingChangesNothing == HSpec => Spec
<1>1. HInit => Init BY DEF HInit
<1>2. [HNext]_<<vars, heard>> => [Next]_vars BY DEF HNext
<1> QED BY <1>1, <1>2, PTL DEF HSpec, Spec

-----------------------------------------------------------------------------
(* The numbers of a sender's messages.                                     *)

\* The messages of e in s are those after the a-th, up to the b-th.
Leads(e, a, s, b) ==
    LET own == Select(s, Own(e)) IN
    /\ b = a + Len(own)
    /\ \A i \in 1..Len(own) : own[i].data[2] = a + i

LEMMA LeadsNothing == ASSUME NEW e, NEW a \in Int, NEW b PROVE Leads(e, a, <<>>, b) <=> a = b
<1>1. Select(<<>>, Own(e)) = <<>> BY SelectNothing
<1>2. Len(<<>>) = 0 OBVIOUS
<1> QED BY <1>1, <1>2 DEF Leads

LEMMA LeadsAppend ==
    ASSUME NEW e, NEW a \in Int, NEW b \in Int, NEW s \in Seq(Packet), NEW n \in Packet,
           Leads(e, a, s, b)
    PROVE  /\ n \notin Own(e) => Leads(e, a, Append(s, n), b)
           /\ n \in Own(e) /\ n.data[2] = b + 1 => Leads(e, a, Append(s, n), b + 1)
<1>1. PICK own \in Seq(Packet) : own = Select(s, Own(e)) BY SelectTyped
<1>2. b = a + Len(own) /\ \A i \in 1..Len(own) : own[i].data[2] = a + i BY <1>1 DEF Leads
<1>3. CASE n \notin Own(e)
  <2>1. Select(Append(s, n), Own(e)) = own BY <1>1, <1>3, SelectAppend
  <2> QED BY <1>2, <1>3, <2>1 DEF Leads
<1>4. CASE n \in Own(e) /\ n.data[2] = b + 1
  <2>1. PICK all : all = Append(own, n) OBVIOUS
  <2>2. /\ Len(all) = Len(own) + 1 /\ Len(own) \in Nat /\ all[Len(own) + 1] = n
        /\ \A i \in 1..Len(own) : all[i] = own[i]
    BY <2>1, AppendProperties
  <2>3. Select(Append(s, n), Own(e)) = all BY <1>1, <1>4, <2>1, SelectAppend
  <2>4. b + 1 = a + Len(all) BY <1>2, <2>2
  <2>5. \A i \in 1..Len(all) : all[i].data[2] = a + i
    <3> SUFFICES ASSUME NEW i \in 1..Len(all) PROVE all[i].data[2] = a + i OBVIOUS
    <3>1. CASE i = Len(own) + 1
      <4>1. all[i] = n BY <2>2, <3>1
      <4>2. b + 1 = a + i BY <1>2, <2>2, <3>1
      <4> QED BY <1>4, <4>1, <4>2
    <3>2. CASE i # Len(own) + 1
      <4>1. i \in 1..Len(own) BY <2>2, <3>2
      <4> QED BY <1>2, <2>2, <4>1
    <3> QED BY <3>1, <3>2
  <2> QED BY <1>4, <2>3, <2>4, <2>5 DEF Leads
<1> QED BY <1>3, <1>4

LEMMA LeadsTail ==
    ASSUME NEW e, NEW a \in Int, NEW b \in Int, NEW s \in Seq(Packet), s # <<>>, Leads(e, a, s, b)
    PROVE  /\ Head(s) \notin Own(e) => Leads(e, a, Tail(s), b)
           /\ Head(s) \in Own(e) => Head(s).data[2] = a + 1 /\ Leads(e, a + 1, Tail(s), b)
<1>1. PICK n \in Packet : n = Head(s) OBVIOUS
<1>2. PICK t \in Seq(Packet) : t = Tail(s)
  <2>1. Tail(s) \in Seq(Packet) BY HeadTailProperties
  <2> QED BY <2>1
<1>3. PICK own \in Seq(Packet) : own = Select(t, Own(e)) BY SelectTyped
<1>4. CASE n \notin Own(e)
  <2>1. Select(s, Own(e)) = own BY <1>1, <1>2, <1>3, <1>4, SelectTail
  <2> QED BY <1>1, <1>2, <1>3, <1>4, <2>1 DEF Leads
<1>5. CASE n \in Own(e)
  <2>1. PICK all : all = <<n>> \o own OBVIOUS
  <2>2. /\ all \in Seq(Packet) /\ Len(all) = Len(own) + 1 /\ Len(own) \in Nat /\ all[1] = n
        /\ \A i \in 1..Len(own) : all[i + 1] = own[i]
    BY <2>1, ConcatProperties
  <2>3. Select(s, Own(e)) = all BY <1>1, <1>2, <1>3, <1>5, <2>1, SelectTail
  <2>4. b = a + Len(all) /\ \A i \in 1..Len(all) : all[i].data[2] = a + i BY <2>3 DEF Leads
  <2>5. n.data[2] = a + 1
    <3>1. 1 \in 1..Len(all) BY <2>2
    <3> QED BY <2>2, <2>4, <3>1
  <2>6. b = (a + 1) + Len(own) BY <2>2, <2>4
  <2>7. \A i \in 1..Len(own) : own[i].data[2] = (a + 1) + i
    <3> SUFFICES ASSUME NEW i \in 1..Len(own) PROVE own[i].data[2] = (a + 1) + i OBVIOUS
    <3>1. i + 1 \in 1..Len(all) BY <2>2
    <3>2. all[i + 1].data[2] = a + (i + 1) BY <2>4, <3>1
    <3>3. a + (i + 1) = (a + 1) + i OBVIOUS
    <3> QED BY <2>2, <3>2, <3>3
  <2> QED BY <1>1, <1>2, <1>3, <1>5, <2>5, <2>6, <2>7 DEF Leads
<1> QED BY <1>1, <1>4, <1>5

\* A message goes from the front of t to the end of s, which is before it.
LEMMA LeadsOn ==
    ASSUME NEW e, NEW a \in Int, NEW b \in Int, NEW d \in Int,
           NEW s \in Seq(Packet), NEW t \in Seq(Packet), t # <<>>,
           Leads(e, a, s, b), Leads(e, b, t, d)
    PROVE  \E mid \in Int : Leads(e, a, Append(s, Head(t)), mid) /\ Leads(e, mid, Tail(t), d)
<1>1. Head(t) \in Packet OBVIOUS
<1>2. CASE Head(t) \in Own(e)
  <2>1. Head(t).data[2] = b + 1 /\ Leads(e, b + 1, Tail(t), d) BY <1>2, LeadsTail
  <2>2. Leads(e, a, Append(s, Head(t)), b + 1) BY <1>1, <1>2, <2>1, LeadsAppend
  <2> QED BY <2>1, <2>2
<1>3. CASE Head(t) \notin Own(e)
  <2>1. Leads(e, b, Tail(t), d) BY <1>3, LeadsTail
  <2>2. Leads(e, a, Append(s, Head(t)), b) BY <1>1, <1>3, LeadsAppend
  <2> QED BY <2>1, <2>2
<1> QED BY <1>2, <1>3

-----------------------------------------------------------------------------
(* Places that are passed one after the other.                             *)

\* What is in the places L, the one next to the receiver first, leads from
\* one to the next.
Chained(e, k, L) == \A i \in 1..7 : Leads(e, k[i - 1], L[i], k[i])

Lines == [1..7 -> Seq(Packet)]
Counts == [0..7 -> Int]

\* The message that is next moves on to place j.
Passed(j, L, M) ==
    /\ L[j + 1] # <<>>
    /\ M[j] = Append(L[j], Head(L[j + 1])) /\ M[j + 1] = Tail(L[j + 1])
    /\ \A i \in 1..7 \ {j, j + 1} : M[i] = L[i]

LEMMA ChainedPassed ==
    ASSUME NEW e, NEW k \in Counts, NEW L \in Lines, NEW M, Chained(e, k, L),
           NEW j \in 1..6, Passed(j, L, M)
    PROVE  \E q \in Counts : Chained(e, q, M) /\ q[0] = k[0] /\ q[7] = k[7]
<1>1. /\ L[j] \in Seq(Packet) /\ L[j + 1] \in Seq(Packet)
      /\ k[j - 1] \in Int /\ k[j] \in Int /\ k[j + 1] \in Int
  <2>1. j \in 1..7 /\ j + 1 \in 1..7 /\ j - 1 \in 0..7 /\ j \in 0..7 /\ j + 1 \in 0..7 OBVIOUS
  <2> QED BY <2>1 DEF Lines, Counts
<1>2. Leads(e, k[j - 1], L[j], k[j]) /\ Leads(e, k[j], L[j + 1], k[j + 1])
  <2>1. j \in 1..7 /\ j + 1 \in 1..7 /\ (j + 1) - 1 = j OBVIOUS
  <2> QED BY <2>1 DEF Chained
<1>3. PICK n \in Int : /\ Leads(e, k[j - 1], Append(L[j], Head(L[j + 1])), n)
                       /\ Leads(e, n, Tail(L[j + 1]), k[j + 1])
  BY <1>1, <1>2, LeadsOn DEF Passed
<1>4. PICK q : q = [k EXCEPT ![j] = n] OBVIOUS
<1>5. q \in Counts /\ \A i \in 0..7 : q[i] = IF i = j THEN n ELSE k[i] BY <1>4 DEF Counts
<1>6. q[0] = k[0] /\ q[7] = k[7] BY <1>5
<1>7. ASSUME NEW i \in 1..7 PROVE Leads(e, q[i - 1], M[i], q[i])
  <2>1. CASE i = j
    <3>1. q[i - 1] = k[j - 1] /\ q[i] = n BY <1>5, <2>1
    <3> QED BY <1>3, <2>1, <3>1 DEF Passed
  <2>2. CASE i = j + 1
    <3>1. q[i - 1] = n /\ q[i] = k[j + 1] BY <1>5, <2>2
    <3> QED BY <1>3, <2>2, <3>1 DEF Passed
  <2>3. CASE i # j /\ i # j + 1
    <3>1. q[i - 1] = k[i - 1] /\ q[i] = k[i] BY <1>5, <2>3
    <3>2. M[i] = L[i] BY <2>3 DEF Passed
    <3> QED BY <3>1, <3>2 DEF Chained
  <2> QED BY <2>1, <2>2, <2>3
<1> QED BY <1>5, <1>6, <1>7 DEF Chained

\* The first place is emptied: the chain starts later.
LEMMA ChainedFront ==
    ASSUME NEW e, NEW k \in Counts, NEW L, NEW M, Chained(e, k, L),
           M[1] = <<>>, \A i \in 2..7 : M[i] = L[i]
    PROVE  Chained(e, [k EXCEPT ![0] = k[1]], M) /\ [k EXCEPT ![0] = k[1]] \in Counts
<1>1. PICK q : q = [k EXCEPT ![0] = k[1]] OBVIOUS
<1>2. q \in Counts /\ \A i \in 0..7 : q[i] = IF i = 0 THEN k[1] ELSE k[i] BY <1>1 DEF Counts
<1>3. ASSUME NEW i \in 1..7 PROVE Leads(e, q[i - 1], M[i], q[i])
  <2>1. CASE i = 1
    <3>1. q[i - 1] = k[1] /\ q[i] = k[1] /\ k[1] \in Int BY <1>2, <2>1 DEF Counts
    <3> QED BY <2>1, <3>1, LeadsNothing
  <2>2. CASE i # 1
    <3>1. q[i - 1] = k[i - 1] /\ q[i] = k[i] /\ M[i] = L[i] BY <1>2, <2>2
    <3> QED BY <3>1 DEF Chained
  <2> QED BY <2>1, <2>2
<1> QED BY <1>1, <1>2, <1>3 DEF Chained

\* The last place is emptied: the chain ends earlier.
LEMMA ChainedBack ==
    ASSUME NEW e, NEW k \in Counts, NEW L, NEW M, Chained(e, k, L),
           M[7] = <<>>, \A i \in 1..6 : M[i] = L[i]
    PROVE  \E q \in Counts : Chained(e, q, M) /\ q[0] = k[0]
<1>1. PICK q : q = [k EXCEPT ![7] = k[6]] OBVIOUS
<1>2. q \in Counts /\ \A i \in 0..7 : q[i] = IF i = 7 THEN k[6] ELSE k[i] BY <1>1 DEF Counts
<1>3. ASSUME NEW i \in 1..7 PROVE Leads(e, q[i - 1], M[i], q[i])
  <2>1. CASE i = 7
    <3>1. q[i - 1] = k[6] /\ q[i] = k[6] /\ k[6] \in Int BY <1>2, <2>1 DEF Counts
    <3> QED BY <2>1, <3>1, LeadsNothing
  <2>2. CASE i # 7
    <3>1. q[i - 1] = k[i - 1] /\ q[i] = k[i] /\ M[i] = L[i] BY <1>2, <2>2
    <3> QED BY <3>1 DEF Chained
  <2> QED BY <2>1, <2>2
<1> QED BY <1>2, <1>3 DEF Chained

\* The sender's next message comes in at the last place.
LEMMA ChainedGrows ==
    ASSUME NEW e, NEW k \in Counts, NEW L \in Lines, NEW M, Chained(e, k, L),
           NEW n \in Packet, n \in Own(e), n.data[2] = k[7] + 1,
           M[7] = Append(L[7], n), \A i \in 1..6 : M[i] = L[i]
    PROVE  \E q \in Counts : Chained(e, q, M) /\ q[0] = k[0] /\ q[7] = k[7] + 1
<1>1. k[6] \in Int /\ k[7] \in Int /\ L[7] \in Seq(Packet) BY DEF Counts, Lines
<1>2. PICK q : q = [k EXCEPT ![7] = k[7] + 1] OBVIOUS
<1>3. q \in Counts /\ \A i \in 0..7 : q[i] = IF i = 7 THEN k[7] + 1 ELSE k[i]
  BY <1>1, <1>2 DEF Counts
<1>4. Leads(e, k[6], Append(L[7], n), k[7] + 1)
  <2>1. Leads(e, k[7 - 1], L[7], k[7]) BY DEF Chained
  <2> QED BY <1>1, <2>1, LeadsAppend
<1>5. ASSUME NEW i \in 1..7 PROVE Leads(e, q[i - 1], M[i], q[i])
  <2>1. CASE i = 7
    <3>1. q[i - 1] = k[6] /\ q[i] = k[7] + 1 BY <1>3, <2>1
    <3> QED BY <1>4, <2>1, <3>1
  <2>2. CASE i # 7
    <3>1. q[i - 1] = k[i - 1] /\ q[i] = k[i] /\ M[i] = L[i] BY <1>3, <2>2
    <3> QED BY <3>1 DEF Chained
  <2> QED BY <2>1, <2>2
<1> QED BY <1>3, <1>5 DEF Chained

\* A message of somebody else's comes in at place 6.
LEMMA ChainedStray ==
    ASSUME NEW e, NEW k \in Counts, NEW L \in Lines, NEW M, Chained(e, k, L),
           NEW n \in Packet, n \notin Own(e),
           M[6] = Append(L[6], n), \A i \in 1..7 \ {6} : M[i] = L[i]
    PROVE  Chained(e, k, M)
<1>1. ASSUME NEW i \in 1..7 PROVE Leads(e, k[i - 1], M[i], k[i])
  <2>1. CASE i = 6
    <3>1. k[i - 1] \in Int /\ k[i] \in Int /\ L[i] \in Seq(Packet)
      <4>1. i - 1 \in 0..7 /\ i \in 0..7 OBVIOUS
      <4> QED BY <4>1 DEF Counts, Lines
    <3>2. Leads(e, k[i - 1], L[i], k[i]) BY DEF Chained
    <3>3. M[i] = Append(L[i], n) BY <2>1
    <3>4. Leads(e, k[i - 1], Append(L[i], n), k[i]) BY <3>1, <3>2, LeadsAppend
    <3> QED BY <3>3, <3>4
  <2>2. CASE i # 6 BY <2>2 DEF Chained
  <2> QED BY <2>1, <2>2
<1> QED BY <1>1 DEF Chained

\* A message of somebody else's leaves place 2.
LEMMA ChainedSkips ==
    ASSUME NEW e, NEW k \in Counts, NEW L \in Lines, NEW M, Chained(e, k, L),
           L[2] # <<>>, Head(L[2]) \notin Own(e),
           M[2] = Tail(L[2]), \A i \in 1..7 \ {2} : M[i] = L[i]
    PROVE  Chained(e, k, M)
<1>1. ASSUME NEW i \in 1..7 PROVE Leads(e, k[i - 1], M[i], k[i])
  <2>1. CASE i = 2
    <3>1. k[i - 1] \in Int /\ k[i] \in Int /\ L[i] \in Seq(Packet)
      <4>1. i - 1 \in 0..7 /\ i \in 0..7 OBVIOUS
      <4> QED BY <4>1 DEF Counts, Lines
    <3>2. Leads(e, k[i - 1], L[i], k[i]) BY DEF Chained
    <3>3. L[i] # <<>> /\ Head(L[i]) \notin Own(e) /\ M[i] = Tail(L[i]) BY <2>1
    <3>4. Leads(e, k[i - 1], Tail(L[i]), k[i]) BY <3>1, <3>2, <3>3, LeadsTail
    <3> QED BY <3>3, <3>4
  <2>2. CASE i # 2 BY <2>2 DEF Chained
  <2> QED BY <2>1, <2>2
<1> QED BY <1>1 DEF Chained

\* All that is in place 6 passes to place 2, when there is nothing in between.
LEMMA ChainedLeaps ==
    ASSUME NEW e, NEW k \in Counts, NEW L \in Lines, NEW M, Chained(e, k, L),
           \A i \in 2..5 : L[i] = <<>>, M[2] = L[6], M[6] = <<>>,
           \A i \in 1..7 \ {2, 6} : M[i] = L[i]
    PROVE  \E q \in Counts : Chained(e, q, M) /\ q[0] = k[0] /\ q[7] = k[7]
<1>1. \A i \in 0..7 : k[i] \in Int BY DEF Counts
<1>2. k[1] = k[2] /\ k[2] = k[3] /\ k[3] = k[4] /\ k[4] = k[5]
  <2>1. /\ Leads(e, k[2 - 1], L[2], k[2]) /\ Leads(e, k[3 - 1], L[3], k[3])
        /\ Leads(e, k[4 - 1], L[4], k[4]) /\ Leads(e, k[5 - 1], L[5], k[5])
    BY DEF Chained
  <2>2. L[2] = <<>> /\ L[3] = <<>> /\ L[4] = <<>> /\ L[5] = <<>> OBVIOUS
  <2>3. /\ Leads(e, k[1], <<>>, k[2]) /\ Leads(e, k[2], <<>>, k[3])
        /\ Leads(e, k[3], <<>>, k[4]) /\ Leads(e, k[4], <<>>, k[5])
    BY <2>1, <2>2
  <2> QED BY <1>1, <2>3, LeadsNothing
<1>3. PICK q : q = [i \in 0..7 |-> IF i \in 2..5 THEN k[6] ELSE k[i]] OBVIOUS
<1>4. q \in Counts /\ \A i \in 0..7 : q[i] = IF i \in 2..5 THEN k[6] ELSE k[i]
  BY <1>1, <1>3 DEF Counts
<1>5. ASSUME NEW i \in 1..7 PROVE Leads(e, q[i - 1], M[i], q[i])
  <2>1. CASE i = 2
    <3>1. q[i - 1] = k[5] /\ q[i] = k[6] /\ M[i] = L[6] BY <1>2, <1>4, <2>1
    <3>2. Leads(e, k[6 - 1], L[6], k[6]) BY DEF Chained
    <3> QED BY <3>1, <3>2
  <2>2. CASE i \in 3..6
    <3>1. q[i - 1] = k[6] /\ q[i] = k[6] /\ k[6] \in Int BY <1>1, <1>4, <2>2
    <3>2. M[i] = <<>> BY <2>2
    <3> QED BY <3>1, <3>2, LeadsNothing
  <2>3. CASE i \in {1, 7}
    <3>1. q[i - 1] = k[i - 1] /\ q[i] = k[i] /\ M[i] = L[i] BY <1>4, <2>3
    <3> QED BY <3>1 DEF Chained
  <2> QED BY <2>1, <2>2, <2>3
<1>6. q[0] = k[0] /\ q[7] = k[7] BY <1>4
<1> QED BY <1>4, <1>5, <1>6 DEF Chained

-----------------------------------------------------------------------------
(* The places between a sender and a receiver.                             *)

\* The message being sent on, if the receiver is to hear it yet.
Coming(c) == IF \E i \in DOMAIN hearers : hearers[i] = PortOf(c) THEN <<msg>> ELSE <<>>

\* What has been through the man in the middle, or past the place where he
\* would be; what he has written back, what he is looking at, and what he has
\* to read yet; and what is still to be forwarded to him.
Through == IF pc \in {"read", "mitm", "forward", "mitmRead"} THEN recvd ELSE msgs
Back    == IF csock[MITM] = None THEN <<>> ELSE buf[MITM] \o up[csock[MITM]]
Shown   == IF csock[MITM] = None THEN <<>>
           ELSE IF inHand[csock[MITM]] = NoPacket THEN <<>> ELSE <<inHand[csock[MITM]]>>
Out     == IF csock[MITM] = None THEN <<>> ELSE down[csock[MITM]]
Batch   == IF pc \in {"read", "mitm"} THEN msgs ELSE fwd

Line(e, c) == <<Coming(c), Through, Back, Shown, Out, Batch, Unread[e]>>

\* One message at a time is sent on, to each of its hearers once, and what is
\* on its way to or from the man in the middle is there while it is dealt with.
Passing ==
    /\ hearers # <<>> => pc = "send"
    /\ \A i, j \in DOMAIN hearers : hearers[i] = hearers[j] => i = j
    /\ \A i \in DOMAIN hearers : msg \in For(hearers[i])
    /\ fwd # <<>> => pc = "forward"
    /\ recvd # <<>> => pc = "mitmRead"

\* No man in the middle has hung up yet, so the one that is connected stays,
\* and none that is not has done anything.
NoneLeft == \A m \in MitmClients : rfLink[m] # "closed"
Resting ==
    /\ \A m \in MitmClients \ {csock[MITM]} :
          up[m] = <<>> /\ down[m] = <<>> /\ inHand[m] = NoPacket
    /\ csock[MITM] = None => buf[MITM] = <<>>
Idle == Resting /\ (pc \in {"forward", "mitmRead"} => csock[MITM] # None)

LEMMA NoPacketIsNone == NoPacket \notin Packet
BY PacketIs, RadioAssumption DEF NoPacket, packet, Clients

LEMMA MitmTyped ==
    ASSUME Types, csock[MITM] # None
    PROVE  /\ csock[MITM] \in MitmClients /\ csock[MITM] \in Clients
           /\ csock[MITM] \notin Radios
           /\ up[csock[MITM]] \in Seq(Packet) /\ down[csock[MITM]] \in Seq(Packet)
           /\ buf[MITM] \in Seq(Packet)
<1>1. csock[MITM] \in Clients /\ PortOf(csock[MITM]) = MITM
  BY PortsInPorts DEF Types, SocketTypes
<1>2. csock[MITM] \in MitmClients BY <1>1, PortsApart
<1>3. csock[MITM] \notin ProbeClients \cup RecvrClients \cup Radios
  BY <1>2, RadioAssumption DEF Radios
<1> QED BY <1>1, <1>2, <1>3, PortsInPorts DEF Types, UpTypes, DownTypes, BufTypes

LEMMA LineTyped ==
    ASSUME Types, Passing, NEW e \in Radios, NEW c
    PROVE  Line(e, c) \in Lines
<1>1. Coming(c) \in Seq(Packet)
  <2>1. CASE \E i \in DOMAIN hearers : hearers[i] = PortOf(c)
    <3>1. msg \in Packet BY <2>1 DEF Passing, For
    <3> QED BY <3>1 DEF Coming
  <2>2. CASE ~\E i \in DOMAIN hearers : hearers[i] = PortOf(c) BY <2>2 DEF Coming
  <2> QED BY <2>1, <2>2
<1>2. Through \in Seq(Packet) /\ Batch \in Seq(Packet) BY DEF Through, Batch, Types, LocalTypes
<1>3. Back \in Seq(Packet) /\ Out \in Seq(Packet)
  <2>1. CASE csock[MITM] = None BY <2>1 DEF Back, Out
  <2>2. CASE csock[MITM] # None BY <2>2, MitmTyped, ConcatProperties DEF Back, Out
  <2> QED BY <2>1, <2>2
<1>4. Shown \in Seq(Packet)
  <2>1. CASE csock[MITM] = None BY <2>1 DEF Shown
  <2>2. CASE csock[MITM] # None
    <3>1. inHand[csock[MITM]] \in Packet \cup {NoPacket}
      BY <2>2, MitmTyped DEF Types, ClientTypes
    <3> QED BY <2>2, <3>1 DEF Shown
  <2> QED BY <2>1, <2>2
<1>5. Unread[e] \in Seq(Packet)
  <2>1. PICK b \in Seq(Packet) : b = buf[PortOf(e)] BY RadiosPorts DEF Types, BufTypes
  <2>2. PICK u \in Seq(Packet) : u = up[e]
    BY RadiosPorts, RadioAssumption DEF Types, UpTypes, Radios
  <2>3. b \o u \in Seq(Packet) BY ConcatProperties
  <2>4. CASE csock[PortOf(e)] = e BY <2>1, <2>2, <2>3, <2>4 DEF Unread
  <2>5. CASE csock[PortOf(e)] # e /\ Held(e) BY <2>2, <2>5 DEF Unread
  <2>6. CASE csock[PortOf(e)] # e /\ ~Held(e) BY <2>6 DEF Unread
  <2> QED BY <2>4, <2>5, <2>6
<1> QED BY <1>1, <1>2, <1>3, <1>4, <1>5 DEF Line, Lines

\* The places one by one, before a step and after it.
LEMMA Places ==
    ASSUME NEW e, NEW c
    PROVE  /\ Line(e, c)[1] = Coming(c) /\ Line(e, c)[2] = Through /\ Line(e, c)[3] = Back
           /\ Line(e, c)[4] = Shown /\ Line(e, c)[5] = Out /\ Line(e, c)[6] = Batch
           /\ Line(e, c)[7] = Unread[e]
           /\ Line(e, c)'[1] = Coming(c)' /\ Line(e, c)'[2] = Through' /\ Line(e, c)'[3] = Back'
           /\ Line(e, c)'[4] = Shown' /\ Line(e, c)'[5] = Out' /\ Line(e, c)'[6] = Batch'
           /\ Line(e, c)'[7] = Unread'[e]
BY DEF Line

-----------------------------------------------------------------------------
(* The emulator's variables.                                               *)

LEMMA RouteHears ==
    ASSUME Types, Passing, Route, NEW m, m = Head(msgs)
    PROVE  /\ m \in Packet /\ msg' = m /\ hearers = <<>>
           /\ \A p \in socks : (\E i \in DOMAIN hearers' : hearers'[i] = p) <=> m \in For(p)
           /\ \A i \in DOMAIN hearers' : m \in For(hearers'[i])
           /\ \A i, j \in DOMAIN hearers' : hearers'[i] = hearers'[j] => i = j
<1>1. PICK s \in Seq(Packet) : s = msgs BY DEF Types, LocalTypes
<1>2. s # <<>> /\ pc = "poll" /\ hearers = <<>> BY <1>1 DEF Route, Passing
<1>3. m \in Packet /\ msg' = m BY <1>1, <1>2 DEF Route
<1>4. CASE ~direct(m) /\ hearers' = DevOrder
  <2>1. \A p \in socks : m \in For(p) <=> p \in Devices BY <1>3, <1>4 DEF For
  <2>2. \A i \in DOMAIN hearers' : hearers'[i] \in Devices BY <1>4, RadioAssumption
  <2>3. \A i, j \in DOMAIN hearers' : hearers'[i] = hearers'[j] => i = j
    BY <1>4, RadioAssumption
  <2>4. \A p \in Devices : \E i \in DOMAIN hearers' : hearers'[i] = p
    BY <1>4, RadioAssumption
  <2> QED BY <1>2, <1>3, <2>1, <2>2, <2>3, <2>4 DEF socks
<1>5. CASE direct(m) /\ m.tgt \in socks /\ hearers' = <<m.tgt>>
  <2>1. \A p \in socks : m \in For(p) <=> p = m.tgt BY <1>3, <1>5 DEF For
  <2>2. DOMAIN hearers' = {1} /\ hearers'[1] = m.tgt BY <1>5
  <2> QED BY <1>2, <1>3, <1>5, <2>1, <2>2
<1>6. CASE direct(m) /\ m.tgt \notin socks /\ UNCHANGED hearers
  <2>1. \A p \in socks : m \notin For(p) BY <1>6 DEF For
  <2>2. DOMAIN hearers' = {} BY <1>2, <1>6
  <2> QED BY <1>2, <1>3, <2>1, <2>2
<1> QED BY <1>4, <1>5, <1>6 DEF Route

LEMMA SendOneHears ==
    ASSUME Types, Passing, SendOne, NEW p, p = Head(hearers)
    PROVE  /\ p \in socks /\ msg \in Packet /\ msg \in For(p)
           /\ \E i \in DOMAIN hearers : hearers[i] = p
           /\ \A i \in DOMAIN hearers' : msg' = msg /\ hearers'[i] # p
           /\ \A i \in DOMAIN hearers' : \E j \in DOMAIN hearers : hearers[j] = hearers'[i]
           /\ \A q \in socks \ {p} : (\E i \in DOMAIN hearers : hearers[i] = q)
                                       => \E i \in DOMAIN hearers' : hearers'[i] = q
           /\ \A i, j \in DOMAIN hearers' : hearers'[i] = hearers'[j] => i = j
<1>1. PICK h \in Seq(socks) : h = hearers BY DEF Types, LocalTypes
<1>2. PICK t : t = Tail(h) OBVIOUS
<1>3. h # <<>> /\ msg \in Packet BY <1>1 DEF SendOne, Types, LocalTypes
<1>4. /\ DOMAIN t = 1..Len(t) /\ DOMAIN h = 1..Len(h) /\ Len(t) + 1 = Len(h) /\ Len(t) \in Nat
      /\ \A i \in 1..Len(t) : t[i] = h[i + 1]
  BY <1>2, <1>3, HeadTailProperties
<1>5. \A i, j \in 1..Len(h) : h[i] = h[j] => i = j BY <1>1, <1>4 DEF Passing
<1>6. p = h[1] /\ p \in socks /\ 1 \in 1..Len(h) BY <1>1, <1>3, <1>4
<1>7. hearers' = t /\ (t # <<>> => msg' = msg) BY <1>1, <1>2 DEF SendOne
<1>8. msg \in For(p) BY <1>1, <1>4, <1>6 DEF Passing
<1>9. ASSUME NEW i \in 1..Len(t) PROVE i + 1 \in 1..Len(h) /\ t[i] = h[i + 1] /\ t[i] # p /\ msg' = msg
  <2>1. i + 1 \in 1..Len(h) /\ t[i] = h[i + 1] /\ i + 1 # 1 BY <1>4
  <2>2. t[i] # p BY <1>5, <1>6, <2>1
  <2>3. t # <<>> BY <1>4
  <2> QED BY <1>7, <2>1, <2>2, <2>3
<1>10. ASSUME NEW q \in socks \ {p}, NEW i \in 1..Len(h), h[i] = q
       PROVE  \E j \in 1..Len(t) : t[j] = q
  <2>1. i # 1 BY <1>6, <1>10
  <2>2. i - 1 \in 1..Len(t) /\ (i - 1) + 1 = i BY <1>4, <2>1
  <2>3. t[i - 1] = q BY <1>4, <1>10, <2>2
  <2> QED BY <2>2, <2>3
<1>11. ASSUME NEW i \in 1..Len(t), NEW j \in 1..Len(t), t[i] = t[j] PROVE i = j
  <2>1. i + 1 \in 1..Len(h) /\ j + 1 \in 1..Len(h) /\ h[i + 1] = h[j + 1] BY <1>9, <1>11
  <2>2. i + 1 = j + 1 BY <1>5, <2>1
  <2> QED BY <2>2
<1>12. DOMAIN hearers' = 1..Len(t) /\ DOMAIN hearers = 1..Len(h) BY <1>1, <1>4, <1>7
<1>13. \A i \in DOMAIN hearers' : msg' = msg /\ hearers'[i] # p BY <1>7, <1>9, <1>12
<1>14. \A i \in DOMAIN hearers' : \E j \in DOMAIN hearers : hearers[j] = hearers'[i]
  BY <1>1, <1>7, <1>9, <1>12
<1>15. \A q \in socks \ {p} : (\E i \in DOMAIN hearers : hearers[i] = q)
                                => \E i \in DOMAIN hearers' : hearers'[i] = q
  BY <1>1, <1>7, <1>10, <1>12
<1>16. \A i, j \in DOMAIN hearers' : hearers'[i] = hearers'[j] => i = j BY <1>7, <1>11, <1>12
<1>17. \E i \in DOMAIN hearers : hearers[i] = p BY <1>1, <1>6, <1>12
<1> QED BY <1>3, <1>6, <1>8, <1>13, <1>14, <1>15, <1>16, <1>17

LEMMA NextPassing == Types /\ Passing /\ [Next]_vars => Passing'
<1> SUFFICES ASSUME Types, Passing, [Next]_vars PROVE Passing' OBVIOUS
<1>1. CASE Route
  <2>1. PICK m : m = Head(msgs) OBVIOUS
  <2>2. /\ msg' = m /\ hearers = <<>>
        /\ \A i \in DOMAIN hearers' : m \in For(hearers'[i])
        /\ \A i, j \in DOMAIN hearers' : hearers'[i] = hearers'[j] => i = j
    BY <1>1, <2>1, RouteHears
  <2>3. hearers' # <<>> => pc' = "send" BY <1>1, <2>2 DEF Route
  <2>4. fwd' = <<>> /\ recvd' = <<>> BY <1>1 DEF Route, Passing
  <2> QED BY <2>2, <2>3, <2>4 DEF Passing, For, direct
<1>2. CASE SendOne
  <2>1. PICK p : p = Head(hearers) OBVIOUS
  <2>2. /\ \A i \in DOMAIN hearers' : msg' = msg
        /\ \A i \in DOMAIN hearers' : \E j \in DOMAIN hearers : hearers[j] = hearers'[i]
        /\ \A i, j \in DOMAIN hearers' : hearers'[i] = hearers'[j] => i = j
    BY <1>2, <2>1, SendOneHears
  <2>3. \A i \in DOMAIN hearers' : msg' \in For(hearers'[i]) BY <2>2 DEF Passing
  <2>4. hearers' # <<>> => pc' = "send" BY <1>2 DEF SendOne
  <2>5. fwd' = <<>> /\ recvd' = <<>> BY <1>2 DEF SendOne, Passing
  <2> QED BY <2>2, <2>3, <2>4, <2>5 DEF Passing, For, direct
<1>3. CASE Emulator /\ ~Route /\ ~SendOne
  <2>1. pc # "send" /\ UNCHANGED <<hearers, msg>>
    BY <1>3 DEF Emulator, ProbeRead, RecvrSend, PollPort, ReadOne, MitmActive, ForwardOne,
                MitmReadOne, AtPoll
  <2>2. hearers' = <<>> BY <2>1 DEF Passing
  <2>3. fwd' # <<>> => pc' = "forward"
    BY <1>3 DEF Emulator, ProbeRead, RecvrSend, PollPort, ReadOne, MitmActive, ForwardOne,
                MitmReadOne, AtPoll, Passing
  <2>4. recvd' # <<>> => pc' = "mitmRead"
    BY <1>3 DEF Emulator, ProbeRead, RecvrSend, PollPort, ReadOne, MitmActive, ForwardOne,
                MitmReadOne, AtPoll, Passing
  <2> QED BY <2>2, <2>3, <2>4 DEF Passing
<1>4. CASE \E c \in Clients : Client(c)
  <2>1. UNCHANGED <<pc, localVars>>
    BY <1>4 DEF Client, Connect, HangUp, NewMessage, ClientReads, MitmTakes, MitmGives,
                Writes, Reads
  <2> QED BY <2>1 DEF Passing, localVars, For, direct
<1>5. CASE UNCHANGED vars BY <1>5 DEF vars, Passing, For, direct
<1> QED BY <1>1, <1>2, <1>3, <1>4, <1>5 DEF Next

LEMMA StaysClosed ==
    Types /\ [Next]_vars => \A c \in Clients : rfLink[c] = "closed" => rfLink'[c] = "closed"
<1> SUFFICES ASSUME Types, [Next]_vars, NEW c \in Clients, rfLink[c] = "closed"
             PROVE  rfLink'[c] = "closed"
  OBVIOUS
<1>1. CASE Emulator
  <2>1. UNCHANGED clientVars BY <1>1, EmulatorOps
  <2> QED BY <2>1 DEF clientVars
<1>2. CASE \E d \in Clients : Client(d)
  BY <1>2 DEF Client, Connect, HangUp, NewMessage, ClientReads, MitmTakes, MitmGives,
              Writes, Reads, Types, ClientTypes
<1>3. CASE UNCHANGED vars BY <1>3 DEF vars
<1> QED BY <1>1, <1>2, <1>3 DEF Next

LEMMA NextNoneLeft == Types /\ [Next]_vars /\ NoneLeft' => NoneLeft
BY StaysClosed DEF NoneLeft, Clients

-----------------------------------------------------------------------------
(* The man in the middle.                                                  *)

\* A step that has nothing to do with him.
MitmSame ==
    /\ csock'[MITM] = csock[MITM] /\ buf'[MITM] = buf[MITM]
    /\ \A m \in MitmClients : up'[m] = up[m] /\ down'[m] = down[m] /\ inHand'[m] = inHand[m]

LEMMA MitmUnmoved ==
    ASSUME Types, MitmSame
    PROVE  /\ UNCHANGED <<Back, Shown, Out>>
           /\ Resting => Resting'
<1>1. csock[MITM] # None => csock[MITM] \in MitmClients BY MitmTyped
<1> QED BY <1>1 DEF MitmSame, Back, Shown, Out, Resting

LEMMA Elsewhere ==
    ASSUME Types, NEW p \in Ports \ {MITM}, Op(p), UNCHANGED clientVars
    PROVE  MitmSame
<1>1. conn(p) # None => conn(p) \in Clients /\ conn(p) \notin MitmClients
  BY Connection, PortsApart DEF Types
<1>2. MITM \in Ports /\ \A m \in MitmClients : m \in Clients BY PortsInPorts DEF Clients
<1>3. inHand' = inHand BY DEF clientVars
<1>4. CASE UNCHANGED sockVars BY <1>3, <1>4 DEF sockVars, MitmSame
<1>5. CASE Keep(p, conn(p)) /\ UNCHANGED <<up, down, buf>>
  BY <1>2, <1>3, <1>5 DEF Keep, Types, SocketTypes, MitmSame
<1>6. CASE close(p)
  BY <1>2, <1>3, <1>6 DEF close, Keep, Types, SocketTypes, BufTypes, MitmSame
<1>7. CASE active(p) /\ Recv(p) /\ \A q \in Ports \ {p} : buf'[q] = buf[q]
  BY <1>1, <1>2, <1>3, <1>7 DEF active, Recv, Keep, Types, SocketTypes, UpTypes, MitmSame
<1>8. CASE /\ active(p)
           /\ \E m : down' = [down EXCEPT ![conn(p)] = Append(@, m)]
           /\ Keep(p, conn(p)) /\ UNCHANGED <<up, buf>>
  BY <1>1, <1>2, <1>3, <1>8 DEF active, Keep, Types, SocketTypes, DownTypes, MitmSame
<1> QED BY <1>4, <1>5, <1>6, <1>7, <1>8 DEF Op

\* One that is accepted has done nothing yet.
LEMMA MitmAccepted ==
    ASSUME Types, Resting, Keep(MITM, conn(MITM)), UNCHANGED <<up, down, buf, inHand>>
    PROVE  UNCHANGED <<Back, Shown, Out>> /\ Resting' /\ csock'[MITM] = conn(MITM)
<1>1. MITM \in Ports BY PortsInPorts
<1>2. csock'[MITM] = conn(MITM) BY <1>1 DEF Keep, Types, SocketTypes
<1>3. CASE csock[MITM] # None
  <2>1. csock'[MITM] = csock[MITM] BY <1>2, <1>3 DEF conn
  <2>2. MitmSame BY <2>1 DEF MitmSame
  <2> QED BY <1>2, <2>2, MitmUnmoved
<1>4. CASE csock[MITM] = None
  <2>1. Back = <<>> /\ Shown = <<>> /\ Out = <<>> BY <1>4 DEF Back, Shown, Out
  <2>2. conn(MITM) # None => conn(MITM) \in MitmClients BY <1>1, Connection, PortsApart DEF Types
  <2>3. \A m \in MitmClients : up[m] = <<>> /\ down[m] = <<>> /\ inHand[m] = NoPacket
    BY <1>4, RadioAssumption DEF Resting, Clients
  <2>4. buf[MITM] = <<>> BY <1>4 DEF Resting
  <2>5. Back' = <<>> /\ Shown' = <<>> /\ Out' = <<>>
    BY <1>2, <2>2, <2>3, <2>4 DEF Back, Shown, Out
  <2>6. Resting' BY <2>3, <2>4 DEF Resting
  <2> QED BY <1>2, <2>1, <2>5, <2>6
<1> QED BY <1>3, <1>4

\* What is assumed of a state from which the emulator or a client steps.
Ready == Types /\ Ownership /\ Connected /\ Passing /\ NoneLeft /\ Idle

LEMMA ComingSame == ASSUME NEW c, UNCHANGED <<hearers, msg>> PROVE Coming(c)' = Coming(c)
BY DEF Coming

\* The man in the middle is there while messages are forwarded.
LEMMA MitmThere ==
    ASSUME Ready, pc \in {"forward", "mitmRead"}
    PROVE  /\ conn(MITM) = csock[MITM] /\ active(MITM) /\ rfLink[csock[MITM]] # "closed"
           /\ csock[MITM] \in MitmClients /\ csock[MITM] \in Clients
BY MitmTyped DEF Ready, Idle, NoneLeft, conn, active

LEMMA ForwardOneMoves ==
    Ready /\ ForwardOne => Idle' /\ \A e, c \in Radios : Passed(5, Line(e, c), Line(e, c)')
<1> SUFFICES ASSUME Ready, ForwardOne
             PROVE  Idle' /\ \A e, c \in Radios : Passed(5, Line(e, c), Line(e, c)')
  OBVIOUS
<1>1. PICK m \in MitmClients : m = csock[MITM] BY MitmThere DEF ForwardOne
<1>2. m \in Clients /\ m # None /\ conn(MITM) = m /\ active(MITM) /\ rfLink[m] # "closed"
  BY <1>1, MitmThere, RadioAssumption DEF ForwardOne
<1>3. MITM \in Ports /\ pc = "forward" /\ fwd # <<>>
  BY PortsInPorts DEF ForwardOne, Ready, Types, LocalTypes
<1>4. PICK n : n = Head(fwd) OBVIOUS
<1>5. down' = [down EXCEPT ![m] = Append(@, n)] /\ Keep(MITM, m) /\ UNCHANGED <<up, buf>>
  BY <1>2, <1>4 DEF ForwardOne, SendMsg
<1>6. csock'[MITM] = m BY <1>3, <1>5 DEF Keep, Ready, Types, SocketTypes
<1>7. down'[m] = Append(down[m], n) /\ \A x \in Clients \ {m} : down'[x] = down[x]
  BY <1>2, <1>5 DEF Ready, Types, DownTypes
<1>8. inHand' = inHand BY DEF ForwardOne, clientVars
<1>9. Back' = Back /\ Shown' = Shown /\ Out' = Append(Out, n)
  BY <1>1, <1>2, <1>5, <1>6, <1>7, <1>8 DEF Back, Shown, Out
<1>10. Batch = fwd /\ Batch' = Tail(fwd) /\ Through' = Through
  BY <1>3 DEF ForwardOne, Batch, Through
<1>11. Unread' = Unread
  <2>1. MITM \in Ports \ socks BY <1>3, PortsApart
  <2>2. Op(MITM) BY <1>3, SendMsgIsOp DEF ForwardOne
  <2> QED BY <2>1, <2>2, OtherPortView DEF ForwardOne, Ready, View
<1>12. Idle'
  <2>1. \A x \in MitmClients : x \in Clients BY DEF Clients
  <2> QED BY <1>1, <1>2, <1>5, <1>6, <1>7, <1>8, <2>1 DEF Ready, Idle, Resting
<1>13. ASSUME NEW e \in Radios, NEW c \in Radios PROVE Passed(5, Line(e, c), Line(e, c)')
  <2>1. Coming(c)' = Coming(c) BY ComingSame DEF ForwardOne
  <2>2. \A i \in 1..7 \ {5, 6} : Line(e, c)'[i] = Line(e, c)[i]
    BY <1>9, <1>10, <1>11, <2>1, Places
  <2>3. Line(e, c)[6] # <<>> /\ Line(e, c)'[6] = Tail(Line(e, c)[6])
        /\ Line(e, c)'[5] = Append(Line(e, c)[5], Head(Line(e, c)[6]))
    <3>1. Line(e, c)[6] = fwd /\ Line(e, c)'[6] = Tail(fwd) BY <1>10, Places
    <3>2. Line(e, c)[5] = Out /\ Line(e, c)'[5] = Append(Out, n) BY <1>9, Places
    <3> QED BY <1>3, <1>4, <3>1, <3>2
  <2> QED BY <2>2, <2>3 DEF Passed
<1> QED BY <1>12, <1>13

LEMMA MitmReadOneMoves ==
    Ready /\ MitmReadOne =>
        /\ Idle'
        /\ \A e, c \in Radios :
              Line(e, c)' = Line(e, c) \/ Passed(2, Line(e, c), Line(e, c)')
<1> SUFFICES ASSUME Ready, MitmReadOne
             PROVE  /\ Idle'
                    /\ \A e, c \in Radios :
                          Line(e, c)' = Line(e, c) \/ Passed(2, Line(e, c), Line(e, c)')
  OBVIOUS
<1>1. PICK m \in MitmClients : m = csock[MITM] BY MitmThere DEF MitmReadOne
<1>2. m \in Clients /\ m # None /\ conn(MITM) = m /\ active(MITM) /\ ~AtEnd(MITM)
  BY <1>1, MitmThere, RadioAssumption DEF MitmReadOne, AtEnd
<1>3. MITM \in Ports /\ pc = "mitmRead" BY PortsInPorts DEF MitmReadOne
<1>4. Recv(MITM) BY <1>2 DEF MitmReadOne, ReadMsg, ReadNone
<1>5. csock'[MITM] = m /\ down' = down
  BY <1>2, <1>3, <1>4 DEF Recv, Keep, Ready, Types, SocketTypes
<1>6. inHand' = inHand BY DEF MitmReadOne, clientVars
<1>7. buf[MITM] \in Seq(Packet) /\ up[m] \in Seq(Packet) BY <1>1, <1>2, MitmTyped DEF Ready
<1>8. /\ \A x \in Clients \ {m} : up'[x] = up[x]
      /\ filled(MITM) = <<>> => UNCHANGED up
      /\ filled(MITM) # <<>> =>
            /\ buf[MITM] \o up[m] # <<>> /\ Head(buf[MITM] \o up[m]) = Head(filled(MITM))
            /\ Tail(buf[MITM] \o up[m]) = Tail(filled(MITM)) \o up'[m]
  BY <1>2, <1>3, <1>4, <1>7, RecvFront DEF Ready
<1>9. Shown' = Shown /\ Out' = Out BY <1>1, <1>2, <1>5, <1>6 DEF Shown, Out
<1>10. Unread' = Unread
  <2>1. MITM \in Ports \ socks BY <1>3, PortsApart
  <2>2. Op(MITM) BY <1>3, ReadMsgIsOp, ReadNoneIsOp DEF MitmReadOne, Ready
  <2> QED BY <2>1, <2>2, OtherPortView DEF MitmReadOne, Ready, View
<1>11. Idle'
  <2>1. \A x \in MitmClients : x \in Clients BY DEF Clients
  <2> QED BY <1>1, <1>2, <1>5, <1>6, <1>8, <2>1 DEF Ready, Idle, Resting
<1>12. Batch' = Batch /\ \A c : Coming(c)' = Coming(c)
  BY <1>3, ComingSame DEF MitmReadOne, Batch
<1>13. Back = buf[MITM] \o up[m] /\ Back' = buf'[MITM] \o up'[m] BY <1>1, <1>2, <1>5 DEF Back
<1>14. CASE /\ ReadMsg(MITM, Head(filled(MITM)))
            /\ recvd' = Append(recvd, Head(filled(MITM)))
            /\ UNCHANGED <<pc, msgs>>
  <2>1. filled(MITM) # <<>> /\ buf'[MITM] = Tail(filled(MITM))
    BY <1>3, <1>14 DEF ReadMsg, Ready, Types, BufTypes
  <2>2. Back # <<>> /\ Back' = Tail(Back) /\ Head(Back) = Head(filled(MITM))
    BY <1>8, <1>13, <2>1
  <2>3. Through = recvd /\ Through' = recvd' BY <1>3, <1>14 DEF Through
  <2>4. ASSUME NEW e \in Radios, NEW c \in Radios PROVE Passed(2, Line(e, c), Line(e, c)')
    <3>1. \A i \in 1..7 \ {2, 3} : Line(e, c)'[i] = Line(e, c)[i]
      BY <1>9, <1>10, <1>12, Places
    <3>2. Line(e, c)[3] # <<>> /\ Line(e, c)'[3] = Tail(Line(e, c)[3])
          /\ Line(e, c)'[2] = Append(Line(e, c)[2], Head(Line(e, c)[3]))
      <4>1. Line(e, c)[3] = Back /\ Line(e, c)'[3] = Tail(Back) BY <2>2, Places
      <4>2. Line(e, c)[2] = recvd /\ Line(e, c)'[2] = Append(recvd, Head(filled(MITM)))
        BY <1>14, <2>3, Places
      <4> QED BY <2>2, <4>1, <4>2
    <3> QED BY <3>1, <3>2 DEF Passed
  <2> QED BY <1>11, <2>4
<1>15. CASE ReadNone(MITM) /\ pc' = "poll" /\ msgs' = forwarded /\ recvd' = <<>>
  <2>1. filled(MITM) = <<>> /\ UNCHANGED buf BY <1>2, <1>15 DEF ReadNone
  <2>2. Back' = Back BY <1>8, <1>13, <2>1
  <2>3. msgs' = recvd BY <1>2, <1>5, <1>15 DEF forwarded
  <2>4. Through' = Through BY <1>3, <1>15, <2>3 DEF Through
  <2>5. \A e, c \in Radios : Line(e, c)' = Line(e, c)
    BY <1>9, <1>10, <1>12, <2>2, <2>4 DEF Line
  <2> QED BY <1>11, <2>5
<1> QED BY <1>14, <1>15 DEF MitmReadOne

\* A man in the middle is there from now on, or all messages go past him.
Leapt(L, M) ==
    /\ \A i \in 2..5 : L[i] = <<>>
    /\ M[2] = L[6] /\ M[6] = <<>>
    /\ \A i \in 1..7 \ {2, 6} : M[i] = L[i]

LEMMA MitmActiveMoves ==
    Ready /\ MitmActive =>
        /\ Idle'
        /\ \A e, c \in Radios :
              Line(e, c)' = Line(e, c) \/ Leapt(Line(e, c), Line(e, c)')
<1> SUFFICES ASSUME Ready, MitmActive
             PROVE  /\ Idle'
                    /\ \A e, c \in Radios :
                          Line(e, c)' = Line(e, c) \/ Leapt(Line(e, c), Line(e, c)')
  OBVIOUS
<1>1. MITM \in Ports /\ MITM \in Ports \ socks BY PortsInPorts, PortsApart
<1>2. UNCHANGED <<up, down, buf, inHand, rfLink>> BY DEF MitmActive, clientVars
<1>3. \A c : Coming(c)' = Coming(c) BY ComingSame DEF MitmActive
<1>4. pc = "mitm" /\ recvd = <<>> /\ fwd = <<>> BY DEF MitmActive, Ready, Passing
<1>5. Unread' = Unread
  <2>1. Op(MITM) BY DEF MitmActive, Op, sockVars
  <2> QED BY <1>1, <2>1, OtherPortView DEF MitmActive, Ready, View
<1>6. CASE active(MITM)
  <2>1. Keep(MITM, conn(MITM)) /\ fwd' = msgs /\ pc' \in {"forward", "mitmRead"}
    BY <1>6 DEF MitmActive
  <2>2. UNCHANGED <<Back, Shown, Out>> /\ Resting' /\ csock'[MITM] = conn(MITM)
    BY <1>2, <2>1, MitmAccepted DEF Ready, Idle
  <2>3. Idle' BY <1>6, <2>2 DEF Idle, active
  <2>4. Through' = Through /\ Batch' = Batch
    BY <1>4, <2>1 DEF Through, Batch, MitmActive
  <2>5. \A e, c \in Radios : Line(e, c)' = Line(e, c) BY <1>3, <1>5, <2>2, <2>4 DEF Line
  <2> QED BY <2>3, <2>5
<1>7. CASE ~active(MITM)
  <2>1. pc' = "poll" /\ UNCHANGED <<fwd, csock, waiting, msgs, recvd>> BY <1>7 DEF MitmActive
  <2>2. csock[MITM] = None BY <1>7 DEF active, conn
  <2>3. MitmSame BY <1>2, <2>1 DEF MitmSame
  <2>4. UNCHANGED <<Back, Shown, Out>> /\ Resting' BY <2>3, MitmUnmoved DEF Ready, Idle
  <2>5. Idle' BY <2>1, <2>4 DEF Idle
  <2>6. Back = <<>> /\ Shown = <<>> /\ Out = <<>> BY <2>2 DEF Back, Shown, Out
  <2>7. Through = <<>> /\ Batch = msgs /\ Through' = msgs /\ Batch' = <<>>
    BY <1>4, <2>1 DEF Through, Batch
  <2>8. ASSUME NEW e \in Radios, NEW c \in Radios PROVE Leapt(Line(e, c), Line(e, c)')
    <3>1. \A i \in 2..5 : Line(e, c)[i] = <<>> BY <2>6, <2>7, Places
    <3>2. Line(e, c)'[2] = Line(e, c)[6] /\ Line(e, c)'[6] = <<>> BY <2>7, Places
    <3>3. \A i \in 1..7 \ {2, 6} : Line(e, c)'[i] = Line(e, c)[i]
      BY <1>3, <1>5, <2>4, Places
    <3> QED BY <3>1, <3>2, <3>3 DEF Leapt
  <2> QED BY <2>5, <2>8
<1> QED BY <1>6, <1>7

-----------------------------------------------------------------------------
(* What the emulator does with the messages of e for c but send them.      *)

\* A message of somebody else's comes in, or leaves; and what is unread of a
\* sender that has hung up is given up when that is noticed.
Strayed(e, L, M) ==
    \E n \in Packet \ Own(e) : M[6] = Append(L[6], n) /\ \A i \in 1..7 \ {6} : M[i] = L[i]
Skipped(e, L, M) ==
    /\ L[2] # <<>> /\ Head(L[2]) \notin Own(e)
    /\ M[2] = Tail(L[2]) /\ \A i \in 1..7 \ {2} : M[i] = L[i]
Ended(e, L, M) ==
    rfLink[e] = "closed" /\ M[7] = <<>> /\ \A i \in 1..6 : M[i] = L[i]

Moved(e, L, M) ==
    \/ M = L
    \/ \E j \in 1..6 : Passed(j, L, M)
    \/ Leapt(L, M) \/ Strayed(e, L, M) \/ Skipped(e, L, M) \/ Ended(e, L, M)

LEMMA SocketsSame ==
    ASSUME UNCHANGED <<up, buf, csock, waiting>>
    PROVE  Unread' = Unread
<1>1. \A x : Held(x)' <=> Held(x) BY DEF Held
<1> QED BY <1>1 DEF Unread

LEMMA LineSame ==
    ASSUME UNCHANGED <<hearers, msg, Through, Back, Shown, Out, Batch, Unread>>,
           NEW e, NEW c
    PROVE  Line(e, c)' = Line(e, c)
BY ComingSame DEF Line

LEMMA ProbeReadMoves ==
    Ready /\ ProbeRead => Idle' /\ \A e, c \in Radios : Line(e, c)' = Line(e, c)
<1> SUFFICES ASSUME Ready, ProbeRead
             PROVE  Idle' /\ \A e, c \in Radios : Line(e, c)' = Line(e, c)
  OBVIOUS
<1>1. PROBE \in Ports \ socks /\ PROBE \in Ports \ {MITM} BY PortsInPorts, PortsApart
<1>2. Op(PROBE) BY DEF ProbeRead, Op, AtEnd
<1>3. MitmSame BY <1>1, <1>2, Elsewhere DEF ProbeRead, Ready
<1>4. UNCHANGED <<Back, Shown, Out>> /\ Resting' BY <1>3, MitmUnmoved DEF Ready, Idle
<1>5. Unread' = Unread BY <1>1, <1>2, OtherPortView DEF ProbeRead, Ready, View
<1>6. pc = "poll" /\ pc' \in {"poll", "recvr"} BY DEF ProbeRead, AtPoll
<1>7. Through' = Through /\ Batch' = Batch BY <1>6 DEF ProbeRead, Through, Batch
<1>8. UNCHANGED <<hearers, msg>> BY DEF ProbeRead
<1> QED BY <1>4, <1>5, <1>6, <1>7, <1>8, LineSame DEF Idle

LEMMA RecvrSendMoves ==
    Ready /\ RecvrSend => Idle' /\ \A e, c \in Radios : Line(e, c)' = Line(e, c)
<1> SUFFICES ASSUME Ready, RecvrSend
             PROVE  Idle' /\ \A e, c \in Radios : Line(e, c)' = Line(e, c)
  OBVIOUS
<1>1. RECVR \in Ports \ socks /\ RECVR \in Ports \ {MITM} BY PortsInPorts, PortsApart
<1>2. Op(RECVR)
  <2>1. CASE SendMsg(RECVR, Trace) BY <1>1, <2>1, SendMsgIsOp
  <2>2. CASE ~SendMsg(RECVR, Trace) BY <2>2 DEF RecvrSend, Op
  <2> QED BY <2>1, <2>2
<1>3. MitmSame BY <1>1, <1>2, Elsewhere DEF RecvrSend, Ready
<1>4. UNCHANGED <<Back, Shown, Out>> /\ Resting' BY <1>3, MitmUnmoved DEF Ready, Idle
<1>5. Unread' = Unread BY <1>1, <1>2, OtherPortView DEF RecvrSend, Ready, View
<1>6. pc = "recvr" /\ pc' \in {"poll", "exited"} BY DEF RecvrSend
<1>7. Through' = Through /\ Batch' = Batch BY <1>6 DEF RecvrSend, Through, Batch
<1>8. UNCHANGED <<hearers, msg>> BY DEF RecvrSend
<1> QED BY <1>4, <1>5, <1>6, <1>7, <1>8, LineSame DEF Idle

LEMMA PollPortMoves ==
    Ready /\ PollPort => Idle' /\ \A e, c \in Radios : Line(e, c)' = Line(e, c)
<1> SUFFICES ASSUME Ready, PollPort
             PROVE  Idle' /\ \A e, c \in Radios : Line(e, c)' = Line(e, c)
  OBVIOUS
<1>1. PICK p \in socks : p = Head(todo) BY DEF PollPort, Ready, Types, LocalTypes
<1>2. p \in Ports \ {MITM} BY PortsInPorts, PortsApart
<1>3. Keep(p, conn(p)) \/ UNCHANGED <<csock, waiting>> BY <1>1 DEF PollPort
<1>4. Op(p) BY <1>3 DEF PollPort, Op, sockVars
<1>5. MitmSame BY <1>2, <1>4, Elsewhere DEF PollPort, Ready
<1>6. UNCHANGED <<Back, Shown, Out>> /\ Resting' BY <1>5, MitmUnmoved DEF Ready, Idle
<1>7. Unread' = Unread
  BY <1>2, <1>3, KeepUnread, SocketsSame DEF PollPort, clientVars, Ready
<1>8. /\ pc = "poll" /\ pc' \in {"poll", "read"} /\ UNCHANGED <<msgs, fwd, recvd>>
      /\ msgs = <<>> /\ fwd = <<>> /\ recvd = <<>>
  <2>1. pc' \in {"poll", "read"}
    <3>1. CASE active(p) BY <1>1, <3>1 DEF PollPort
    <3>2. CASE ~active(p) BY <1>1, <3>2 DEF PollPort, AtPoll
    <3> QED BY <3>1, <3>2
  <2> QED BY <2>1 DEF PollPort, AtPoll, Ready, Passing
<1>9. Through' = Through /\ Batch' = Batch BY <1>8 DEF Through, Batch
<1>10. UNCHANGED <<hearers, msg>> BY DEF PollPort
<1> QED BY <1>6, <1>7, <1>8, <1>9, <1>10, LineSame DEF Idle

LEMMA ReadOneMoves ==
    Ready /\ ReadOne => Idle' /\ \A e, c \in Radios : Moved(e, Line(e, c), Line(e, c)')
<1> SUFFICES ASSUME Ready, ReadOne
             PROVE  Idle' /\ \A e, c \in Radios : Moved(e, Line(e, c), Line(e, c)')
  OBVIOUS
<1>1. PICK p \in socks : p = port BY DEF ReadOne, Ready, Types, LocalTypes
<1>2. p \in Ports \ {MITM} /\ p \in Ports BY PortsInPorts, PortsApart
<1>3. PICK x : x = conn(p) OBVIOUS
<1>4. Op(p) BY <1>1, <1>2, ReadMsgIsOp, ReadNoneIsOp DEF ReadOne, Ready
<1>5. MitmSame BY <1>2, <1>4, Elsewhere DEF ReadOne, Ready
<1>6. UNCHANGED <<Back, Shown, Out>> /\ Resting' BY <1>5, MitmUnmoved DEF Ready, Idle
<1>7. pc = "read" /\ pc' \in {"read", "mitm"} /\ UNCHANGED <<rfLink, hearers, msg, recvd>>
  BY DEF ReadOne, clientVars
<1>8. Idle' BY <1>6, <1>7 DEF Idle
<1>9. Through' = Through /\ Batch = msgs /\ Batch' = msgs' BY <1>7 DEF Through, Batch
<1>10. \A c : Coming(c)' = Coming(c) BY <1>7, ComingSame
<1>11. CASE ReadMsg(port, Head(filled(port))) /\ msgs' = Append(msgs, Head(filled(port)))
  <2>1. PICK m : m = Head(filled(p)) OBVIOUS
  <2>2. /\ x \in Radios /\ Unread[x] # <<>> /\ m = Head(Unread[x]) /\ m \in Packet
        /\ Unread' = [Unread EXCEPT ![x] = Tail(@)]
    BY <1>1, <1>3, <1>7, <1>11, <2>1, ReadView DEF Ready, Unnoticed
  <2>3. m \in Own(x)
    <3>1. active(p) /\ filled(p) # <<>> BY <1>1, <1>11 DEF ReadMsg
    <3>2. filled(p) \in Seq(Own(x)) BY <1>3, <3>1, FilledOwned DEF Ready
    <3> QED BY <2>1, <3>1, <3>2
  <2>4. Unread'[x] = Tail(Unread[x]) /\ \A e \in Radios \ {x} : Unread'[e] = Unread[e]
    BY <2>2, UnreadDomain
  <2>5. Batch' = Append(Batch, m) BY <1>1, <1>9, <1>11, <2>1
  <2>6. ASSUME NEW e \in Radios, NEW c \in Radios PROVE Moved(e, Line(e, c), Line(e, c)')
    <3>1. Line(e, c)'[6] = Append(Line(e, c)[6], m) BY <2>5, Places
    <3>2. \A i \in 1..5 : Line(e, c)'[i] = Line(e, c)[i] BY <1>6, <1>9, <1>10, Places
    <3>3. CASE e = x
      <4>1. Line(e, c)[7] # <<>> /\ m = Head(Line(e, c)[7])
            /\ Line(e, c)'[7] = Tail(Line(e, c)[7])
        <5>1. Line(e, c)[7] = Unread[x] /\ Line(e, c)'[7] = Unread'[x] BY <3>3, Places
        <5> QED BY <2>2, <2>4, <5>1
      <4>2. Passed(6, Line(e, c), Line(e, c)') BY <3>1, <3>2, <4>1 DEF Passed
      <4> QED BY <4>2 DEF Moved
    <3>4. CASE e # x
      <4>1. m \notin Own(e) BY <2>3, <3>4 DEF Own
      <4>2. Line(e, c)'[7] = Line(e, c)[7] BY <2>4, <3>4, Places
      <4>3. Strayed(e, Line(e, c), Line(e, c)') BY <2>2, <3>1, <3>2, <4>1, <4>2 DEF Strayed
      <4> QED BY <4>3 DEF Moved
    <3> QED BY <3>3, <3>4
  <2> QED BY <1>8, <2>6
<1>12. CASE ReadNone(port) /\ UNCHANGED msgs
  <2>1. ASSUME Unread' = Unread
        PROVE  \A e, c \in Radios : Moved(e, Line(e, c), Line(e, c)')
    <3>1. UNCHANGED <<hearers, msg, Through, Back, Shown, Out, Batch, Unread>>
      BY <1>6, <1>7, <1>9, <1>12, <2>1
    <3> QED BY <3>1, LineSame DEF Moved
  <2>2. CASE UNCHANGED sockVars BY <1>8, <2>1, <2>2, SocketsSame DEF sockVars
  <2>3. CASE active(p) /\ AtEnd(p) /\ close(p)
    <3>1. rfLink[x] = "closed" BY <1>3, <2>3 DEF AtEnd
    <3>2. x \in Radios /\ Unread' = [Unread EXCEPT ![x] = <<>>]
      BY <1>3, <1>7, <2>3, <3>1, CloseView DEF Ready
    <3>3. Unread'[x] = <<>> /\ \A e \in Radios \ {x} : Unread'[e] = Unread[e]
      BY <3>2, UnreadDomain
    <3>4. ASSUME NEW e \in Radios, NEW c \in Radios PROVE Moved(e, Line(e, c), Line(e, c)')
      <4>1. \A i \in 1..6 : Line(e, c)'[i] = Line(e, c)[i]
        BY <1>6, <1>9, <1>10, <1>12, Places
      <4>2. CASE e = x
        <5>1. Ended(e, Line(e, c), Line(e, c)') BY <3>1, <3>3, <4>1, <4>2, Places DEF Ended
        <5> QED BY <5>1 DEF Moved
      <4>3. CASE e # x
        <5>1. UNCHANGED Coming(c) /\ UNCHANGED Unread[e] BY <1>10, <3>3, <4>3
        <5>2. Line(e, c)' = Line(e, c) BY <1>6, <1>9, <1>12, <5>1 DEF Line
        <5> QED BY <5>2 DEF Moved
      <4> QED BY <4>2, <4>3
    <3> QED BY <1>8, <3>4
  <2>4. CASE active(p) /\ filled(p) = <<>> /\ Recv(p) /\ UNCHANGED buf
    <3>1. x # None BY <1>3, <2>4 DEF active
    <3>2. x \in Clients /\ buf[p] \in Seq(Packet) /\ up[x] \in Seq(Packet)
      BY <1>3, <3>1, ConnUnread DEF Ready
    <3>3. UNCHANGED up BY <1>2, <1>3, <2>4, <3>2, RecvFront DEF Ready
    <3>4. Unread' = Unread BY <1>2, <1>7, <2>4, <3>3, KeepUnread DEF Recv, Ready
    <3> QED BY <1>8, <2>1, <3>4
  <2> QED BY <1>1, <1>12, <2>2, <2>3, <2>4 DEF ReadNone
<1> QED BY <1>11, <1>12 DEF ReadOne

LEMMA RouteMoves ==
    Ready /\ Route =>
        /\ Idle'
        /\ \A e, c \in Radios :
              Own(e) \subseteq For(PortOf(c)) => Moved(e, Line(e, c), Line(e, c)')
<1> SUFFICES ASSUME Ready, Route
             PROVE  /\ Idle'
                    /\ \A e, c \in Radios :
                          Own(e) \subseteq For(PortOf(c)) => Moved(e, Line(e, c), Line(e, c)')
  OBVIOUS
<1>1. PICK m : m = Head(msgs) OBVIOUS
<1>2. /\ m \in Packet /\ msg' = m /\ hearers = <<>>
      /\ \A p \in socks : (\E i \in DOMAIN hearers' : hearers'[i] = p) <=> m \in For(p)
  BY <1>1, RouteHears DEF Ready
<1>3. MitmSame BY DEF Route, sockVars, clientVars, MitmSame
<1>4. UNCHANGED <<Back, Shown, Out>> /\ Resting' BY <1>3, MitmUnmoved DEF Ready, Idle
<1>5. Unread' = Unread BY SocketsSame DEF Route, sockVars
<1>6. pc = "poll" /\ pc' \in {"send", "exited"} /\ msgs # <<>> /\ msgs' = Tail(msgs)
  BY DEF Route
<1>7. Through = msgs /\ Through' = Tail(msgs) BY <1>6 DEF Through
<1>8. Batch' = Batch BY <1>6 DEF Route, Batch
<1>9. ASSUME NEW e \in Radios, NEW c \in Radios, Own(e) \subseteq For(PortOf(c))
      PROVE  Moved(e, Line(e, c), Line(e, c)')
  <2>1. \A i \in 3..7 : Line(e, c)'[i] = Line(e, c)[i] BY <1>4, <1>5, <1>8, Places
  <2>2. Line(e, c)[2] # <<>> /\ Head(Line(e, c)[2]) = m /\ Line(e, c)'[2] = Tail(Line(e, c)[2])
    <3>1. Line(e, c)[2] = msgs /\ Line(e, c)'[2] = Tail(msgs) BY <1>7, Places
    <3> QED BY <1>1, <1>6, <3>1
  <2>3. Line(e, c)[1] = <<>>
    <3>1. Coming(c) = <<>> BY <1>2 DEF Coming
    <3> QED BY <3>1, Places
  <2>4. Line(e, c)'[1] = IF m \in For(PortOf(c)) THEN <<m>> ELSE <<>>
    <3>1. Coming(c)' = IF m \in For(PortOf(c)) THEN <<m>> ELSE <<>>
      BY <1>2, RadiosPorts DEF Coming
    <3> QED BY <3>1, Places
  <2>5. CASE m \in For(PortOf(c))
    <3>1. Line(e, c)'[1] = Append(Line(e, c)[1], m) BY <2>3, <2>4, <2>5
    <3>2. Passed(1, Line(e, c), Line(e, c)') BY <2>1, <2>2, <3>1 DEF Passed
    <3> QED BY <3>2 DEF Moved
  <2>6. CASE m \notin For(PortOf(c))
    <3>1. m \notin Own(e) BY <1>9, <2>6
    <3>2. Skipped(e, Line(e, c), Line(e, c)') BY <2>1, <2>2, <2>3, <2>4, <2>6, <3>1 DEF Skipped
    <3> QED BY <3>2 DEF Moved
  <2> QED BY <2>5, <2>6
<1>10. Idle' BY <1>4, <1>6 DEF Idle
<1> QED BY <1>9, <1>10

-----------------------------------------------------------------------------
(* What the clients do with them.                                          *)

LEMMA QuietClient ==
    ASSUME Ready, MitmSame, UNCHANGED <<Unread, pc, localVars>>
    PROVE  Idle' /\ \A e, c \in Radios : Line(e, c)' = Line(e, c)
<1>1. UNCHANGED <<Back, Shown, Out>> /\ Resting' BY MitmUnmoved DEF Ready, Idle
<1>2. UNCHANGED <<hearers, msg, Through, Batch>> BY DEF localVars, Through, Batch
<1>3. Idle' BY <1>1 DEF Ready, Idle, MitmSame
<1> QED BY <1>1, <1>2, <1>3, LineSame

LEMMA ConnectMoves ==
    \A x \in Clients :
        Ready /\ Connect(x) => Idle' /\ \A e, c \in Radios : Line(e, c)' = Line(e, c)
<1> SUFFICES ASSUME NEW x \in Clients, Ready, Connect(x)
             PROVE  Idle' /\ \A e, c \in Radios : Line(e, c)' = Line(e, c)
  OBVIOUS
<1>1. MitmSame BY DEF Connect, MitmSame
<1>2. Unread' = Unread BY ConnectUnread DEF Ready
<1> QED BY <1>1, <1>2, QuietClient DEF Connect

LEMMA HangUpMoves ==
    \A x \in Clients :
        Ready /\ HangUp(x) /\ NoneLeft'
            => Idle' /\ \A e, c \in Radios : Line(e, c)' = Line(e, c)
<1> SUFFICES ASSUME NEW x \in Clients, Ready, HangUp(x), NoneLeft'
             PROVE  Idle' /\ \A e, c \in Radios : Line(e, c)' = Line(e, c)
  OBVIOUS
<1>1. x \notin MitmClients
  <2>1. rfLink'[x] = "closed" BY DEF HangUp, Ready, Types, ClientTypes
  <2> QED BY <2>1 DEF NoneLeft
<1>2. MitmSame
  <2>1. \A m \in MitmClients : m \in Clients /\ m # x BY <1>1 DEF Clients
  <2> QED BY <2>1 DEF HangUp, MitmSame, Ready, Types, DownTypes
<1>3. Unread' = Unread BY SocketsSame DEF HangUp
<1> QED BY <1>2, <1>3, QuietClient DEF HangUp

LEMMA ClientReadsMoves ==
    \A x \in Clients :
        Ready /\ ClientReads(x) => Idle' /\ \A e, c \in Radios : Line(e, c)' = Line(e, c)
<1> SUFFICES ASSUME NEW x \in Clients, Ready, ClientReads(x)
             PROVE  Idle' /\ \A e, c \in Radios : Line(e, c)' = Line(e, c)
  OBVIOUS
<1>1. MitmSame
  <2>1. \A m \in MitmClients : m \in Clients /\ m # x BY DEF Clients, ClientReads
  <2> QED BY <2>1 DEF ClientReads, Reads, MitmSame, Ready, Types, DownTypes
<1>2. Unread' = Unread BY SocketsSame DEF ClientReads, Reads
<1> QED BY <1>1, <1>2, QuietClient DEF ClientReads, Reads

LEMMA MitmTakesMoves ==
    \A x \in Clients :
        Ready /\ MitmTakes(x)
            => Idle' /\ \A e, c \in Radios : Passed(4, Line(e, c), Line(e, c)')
<1> SUFFICES ASSUME NEW x \in Clients, Ready, MitmTakes(x)
             PROVE  Idle' /\ \A e, c \in Radios : Passed(4, Line(e, c), Line(e, c)')
  OBVIOUS
<1>1. x \in MitmClients /\ down[x] # <<>> /\ inHand[x] = NoPacket BY DEF MitmTakes, Reads
<1>2. x = csock[MITM] /\ x # None BY <1>1, RadioAssumption DEF Ready, Idle, Resting
<1>3. down[x] \in Seq(Packet) BY <1>2, MitmTyped DEF Ready
<1>4. Head(down[x]) \in Packet /\ Head(down[x]) # NoPacket BY <1>1, <1>3, NoPacketIsNone
<1>5. /\ down'[x] = Tail(down[x]) /\ \A m \in Clients \ {x} : down'[m] = down[m]
      /\ inHand'[x] = Head(down[x]) /\ \A m \in MitmClients \ {x} : inHand'[m] = inHand[m]
      /\ UNCHANGED <<up, buf, csock, waiting, pc, localVars>>
  BY <1>1 DEF MitmTakes, Reads, Ready, Types, DownTypes, ClientTypes
<1>6. Shown = <<>> /\ Shown' = <<Head(down[x])>> BY <1>1, <1>2, <1>4, <1>5 DEF Shown
<1>7. Out = down[x] /\ Out' = Tail(down[x]) /\ Back' = Back BY <1>2, <1>5 DEF Out, Back
<1>8. Unread' = Unread BY <1>5, SocketsSame
<1>9. UNCHANGED <<hearers, msg, Through, Batch>> BY <1>5 DEF localVars, Through, Batch
<1>10. Idle'
  <2>1. \A m \in MitmClients : m \in Clients BY DEF Clients
  <2> QED BY <1>2, <1>5, <2>1 DEF Ready, Idle, Resting
<1>11. ASSUME NEW e \in Radios, NEW c \in Radios PROVE Passed(4, Line(e, c), Line(e, c)')
  <2>1. \A i \in 1..7 \ {4, 5} : Line(e, c)'[i] = Line(e, c)[i]
    BY <1>7, <1>8, <1>9, ComingSame, Places
  <2>2. Line(e, c)[4] = <<>> /\ Line(e, c)'[4] = <<Head(down[x])>> BY <1>6, Places
  <2>3. Line(e, c)[5] = down[x] /\ Line(e, c)'[5] = Tail(down[x]) BY <1>7, Places
  <2>4. <<Head(down[x])>> = Append(<<>>, Head(down[x])) OBVIOUS
  <2> QED BY <1>1, <2>1, <2>2, <2>3, <2>4 DEF Passed
<1> QED BY <1>10, <1>11

LEMMA MitmGivesMoves ==
    \A x \in Clients :
        Ready /\ MitmGives(x)
            => Idle' /\ \A e, c \in Radios : Passed(3, Line(e, c), Line(e, c)')
<1> SUFFICES ASSUME NEW x \in Clients, Ready, MitmGives(x)
             PROVE  Idle' /\ \A e, c \in Radios : Passed(3, Line(e, c), Line(e, c)')
  OBVIOUS
<1>1. x \in MitmClients /\ inHand[x] # NoPacket BY DEF MitmGives
<1>2. x = csock[MITM] /\ x # None BY <1>1, RadioAssumption DEF Ready, Idle, Resting
<1>3. PICK h \in Packet : h = inHand[x] BY <1>1 DEF Ready, Types, ClientTypes
<1>4. up[x] \in Seq(Packet) /\ buf[MITM] \in Seq(Packet) /\ x \notin Radios
  BY <1>2, MitmTyped DEF Ready
<1>5. /\ up'[x] = Append(up[x], h) /\ \A m \in Clients \ {x} : up'[m] = up[m]
      /\ inHand'[x] = NoPacket /\ \A m \in MitmClients \ {x} : inHand'[m] = inHand[m]
      /\ UNCHANGED <<down, buf, csock, waiting, pc, localVars>>
  BY <1>1, <1>3 DEF MitmGives, Writes, Ready, Types, UpTypes, ClientTypes
<1>6. Shown = <<h>> /\ Shown' = <<>> BY <1>1, <1>2, <1>3, <1>5 DEF Shown
<1>7. Back' = Append(Back, h) /\ Out' = Out
  <2>1. PICK b \in Seq(Packet) : b = buf[MITM] BY <1>4
  <2>2. PICK u \in Seq(Packet) : u = up[x] BY <1>4
  <2>3. b \o Append(u, h) = Append(b \o u, h) BY ConcatProperties
  <2>4. Back = b \o u /\ Back' = b \o Append(u, h) BY <1>2, <1>5, <2>1, <2>2 DEF Back
  <2> QED BY <1>2, <1>5, <2>3, <2>4 DEF Out
<1>8. Unread' = Unread
  <2>1. Writes(x, inHand[x]) BY DEF MitmGives
  <2>2. \A e \in Radios \ {x} : Unread'[e] = Unread[e] BY <1>4, <2>1, WritesUnread DEF Ready
  <2>3. \A e \in Radios : Unread'[e] = Unread[e] BY <1>4, <2>2
  <2> QED BY <2>3, UnreadDomain
<1>9. UNCHANGED <<hearers, msg, Through, Batch>> BY <1>5 DEF localVars, Through, Batch
<1>10. Idle'
  <2>1. \A m \in MitmClients : m \in Clients BY DEF Clients
  <2> QED BY <1>2, <1>5, <2>1 DEF Ready, Idle, Resting
<1>11. ASSUME NEW e \in Radios, NEW c \in Radios PROVE Passed(3, Line(e, c), Line(e, c)')
  <2>1. \A i \in 1..7 \ {3, 4} : Line(e, c)'[i] = Line(e, c)[i]
    BY <1>7, <1>8, <1>9, ComingSame, Places
  <2>2. Line(e, c)[4] = <<h>> /\ Line(e, c)'[4] = <<>> BY <1>6, Places
  <2>3. Line(e, c)'[3] = Append(Line(e, c)[3], h) BY <1>7, Places
  <2>4. Line(e, c)[4] # <<>> /\ Head(Line(e, c)[4]) = h /\ Line(e, c)'[4] = Tail(Line(e, c)[4])
    <3>1. <<h>> # <<>> /\ Head(<<h>>) = h /\ Tail(<<h>>) = <<>> OBVIOUS
    <3> QED BY <2>2, <3>1
  <2> QED BY <2>1, <2>3, <2>4 DEF Passed
<1> QED BY <1>10, <1>11

\* The next message of e comes in, or somebody else's does.
Grown(e, L, M) ==
    \E n \in Own(e) : /\ n.data[2] = sent[e] + 1 /\ sent'[e] = sent[e] + 1
                      /\ M[7] = Append(L[7], n) /\ \A i \in 1..6 : M[i] = L[i]

LEMMA NewMessageMoves ==
    \A x \in Clients :
        Ready /\ NewMessage(x) =>
            /\ Idle' /\ rfLink[x] = "open" /\ rfLink' = rfLink
            /\ \A e, c \in Radios :
                  \/ sent'[e] = sent[e] /\ Line(e, c)' = Line(e, c)
                  \/ e = x /\ Grown(e, Line(e, c), Line(e, c)')
<1> SUFFICES ASSUME NEW x \in Clients, Ready, NewMessage(x)
             PROVE  /\ Idle' /\ rfLink[x] = "open" /\ rfLink' = rfLink
                    /\ \A e, c \in Radios :
                          \/ sent'[e] = sent[e] /\ Line(e, c)' = Line(e, c)
                          \/ e = x /\ Grown(e, Line(e, c), Line(e, c)')
  OBVIOUS
<1>1. /\ sent'[x] = sent[x] + 1 /\ sent[x] < MaxSent[x]
      /\ \A e \in Clients \ {x} : sent'[e] = sent[e]
  BY DEF NewMessage, Ready, Types, ClientTypes
<1>2. PICK n : /\ Writes(x, n)
               /\ x \in Radios => n \in Packet /\ n \in Own(x) /\ n.data[2] = sent[x] + 1
               /\ x \notin MitmClients
  <2>1. CASE x \in Boots /\ \E t \in SedTargets : Writes(x, packet(t, IdOf[x], <<x, sent'[x]>>))
    <3>1. PICK t \in SedTargets : Writes(x, packet(t, IdOf[x], <<x, sent'[x]>>)) BY <2>1
    <3>2. packet(t, IdOf[x], <<x, sent[x] + 1>>) \in Packet BY <1>1, <2>1, MessageTyped DEF Ready
    <3>3. x \notin MitmClients BY <2>1, RadioAssumption
    <3> QED BY <1>1, <3>1, <3>2, <3>3 DEF Own, packet
  <2>2. CASE x \in FaaClients /\ \E t \in FaaTargets : Writes(x, packet(t, FAA_ID, <<x, sent'[x]>>))
    <3>1. PICK t \in FaaTargets : Writes(x, packet(t, FAA_ID, <<x, sent'[x]>>)) BY <2>2
    <3>2. packet(t, FAA_ID, <<x, sent[x] + 1>>) \in Packet BY <1>1, <2>2, MessageTyped DEF Ready
    <3>3. x \notin MitmClients BY <2>2, RadioAssumption
    <3> QED BY <1>1, <3>1, <3>2, <3>3 DEF Own, packet
  <2>3. CASE x \in ProbeClients /\ Writes(x, Trace)
    <3>1. x \notin Radios /\ x \notin MitmClients BY <2>3, RadioAssumption DEF Radios
    <3> QED BY <2>3, <3>1
  <2> QED BY <2>1, <2>2, <2>3 DEF NewMessage
<1>3. rfLink[x] = "open" /\ UNCHANGED <<rfLink, down, buf, csock, waiting, pc, localVars>>
  BY <1>2 DEF Writes
<1>4. inHand' = inHand BY DEF NewMessage
<1>5. MitmSame
  <2>1. \A m \in MitmClients : m \in Clients /\ m # x BY <1>2 DEF Clients
  <2>2. \A m \in Clients \ {x} : up'[m] = up[m] BY <1>2 DEF Writes, Ready, Types, UpTypes
  <2> QED BY <1>3, <1>4, <2>1, <2>2 DEF MitmSame
<1>6. UNCHANGED <<Back, Shown, Out>> /\ Resting' BY <1>5, MitmUnmoved DEF Ready, Idle
<1>7. Idle' BY <1>3, <1>6 DEF Ready, Idle
<1>8. UNCHANGED <<hearers, msg, Through, Batch>> BY <1>3 DEF localVars, Through, Batch
<1>9. /\ \A e \in Radios \ {x} : Unread'[e] = Unread[e]
      /\ x \in Radios => Unread'[x] = Append(Unread[x], n)
  BY <1>2, WritesUnread DEF Ready
<1>10. ASSUME NEW e \in Radios, NEW c \in Radios
       PROVE  \/ sent'[e] = sent[e] /\ Line(e, c)' = Line(e, c)
              \/ e = x /\ Grown(e, Line(e, c), Line(e, c)')
  <2>1. \A i \in 1..6 : Line(e, c)'[i] = Line(e, c)[i] BY <1>6, <1>8, ComingSame, Places
  <2>2. CASE e = x
    <3>1. Line(e, c)'[7] = Append(Line(e, c)[7], n) BY <1>9, <2>2, Places
    <3> QED BY <1>1, <1>2, <2>1, <2>2, <3>1 DEF Grown
  <2>3. CASE e # x
    <3>1. UNCHANGED Coming(c) BY <1>8, ComingSame
    <3>2. UNCHANGED Unread[e] BY <1>9, <2>3
    <3>3. Line(e, c)' = Line(e, c) BY <1>6, <1>8, <3>1, <3>2 DEF Line
    <3>4. sent'[e] = sent[e] BY <1>1, <2>3, RadiosPorts
    <3> QED BY <3>3, <3>4
  <2> QED BY <2>2, <2>3
<1> QED BY <1>3, <1>7, <1>10

-----------------------------------------------------------------------------
(* What has been heard.                                                    *)

\* A receiver has heard only what was for it, and only on the connection that
\* it has: one that has heard something is connected, or has hung up.
Audience(c) ==
    /\ heard[c] \in Seq(For(PortOf(c)))
    /\ heard[c] # <<>> => csock[PortOf(c)] = c \/ rfLink[c] = "closed"

\* What c has heard of e's leads up to what is next in line, as long as c is
\* there; and what is last in line is the last that e has written.
Ordered(e, c) ==
    \E a, b \in Int, k \in Counts :
        /\ Leads(e, a, heard[c], b)
        /\ Chained(e, k, Line(e, c))
        /\ rfLink[e] # "closed" => k[7] = sent[e]
        /\ rfLink[c] = "open" /\ heard[c] # <<>> => k[0] = b

LEMMA MovedOrdered ==
    ASSUME Ready, NEW e \in Radios, NEW c \in Radios,
           Ordered(e, c), Moved(e, Line(e, c), Line(e, c)'), heard'[c] = heard[c],
           rfLink'[e] # "closed" => rfLink[e] # "closed" /\ sent'[e] = sent[e],
           rfLink'[c] = "open" /\ heard[c] # <<>> => rfLink[c] = "open"
    PROVE  Ordered(e, c)'
<1>1. PICK a \in Int, b \in Int, k \in Counts :
         /\ Leads(e, a, heard[c], b) /\ Chained(e, k, Line(e, c))
         /\ rfLink[e] # "closed" => k[7] = sent[e]
         /\ rfLink[c] = "open" /\ heard[c] # <<>> => k[0] = b
  BY DEF Ordered
<1>2. PICK L \in Lines : L = Line(e, c) BY LineTyped DEF Ready
<1>3. PICK M : M = Line(e, c)' OBVIOUS
<1>4. Chained(e, k, L) /\ Moved(e, L, M) BY <1>1, <1>2, <1>3
<1>5. \E q \in Counts : Chained(e, q, M) /\ q[0] = k[0] /\ (rfLink[e] # "closed" => q[7] = k[7])
  <2>1. CASE M = L BY <1>4, <2>1
  <2>2. CASE \E j \in 1..6 : Passed(j, L, M) BY <1>4, <2>2, ChainedPassed
  <2>3. CASE Leapt(L, M) BY <1>4, <2>3, ChainedLeaps DEF Leapt
  <2>4. CASE Strayed(e, L, M)
    <3>1. Chained(e, k, M) BY <1>4, <2>4, ChainedStray DEF Strayed
    <3> QED BY <3>1
  <2>5. CASE Skipped(e, L, M)
    <3>1. Chained(e, k, M) BY <1>4, <2>5, ChainedSkips DEF Skipped
    <3> QED BY <3>1
  <2>6. CASE Ended(e, L, M) BY <1>4, <2>6, ChainedBack DEF Ended
  <2> QED BY <1>4, <2>1, <2>2, <2>3, <2>4, <2>5, <2>6 DEF Moved
<1>6. PICK q \in Counts : Chained(e, q, M) /\ q[0] = k[0] /\ (rfLink[e] # "closed" => q[7] = k[7])
  BY <1>5
<1>7. /\ Leads(e, a, heard'[c], b) /\ Chained(e, q, Line(e, c)')
      /\ rfLink'[e] # "closed" => q[7] = sent'[e]
      /\ rfLink'[c] = "open" /\ heard'[c] # <<>> => q[0] = b
  BY <1>1, <1>3, <1>6
<1>8. Ordered(e, c)' = \E x, y \in Int, z \in Counts :
         /\ Leads(e, x, heard'[c], y) /\ Chained(e, z, Line(e, c)')
         /\ rfLink'[e] # "closed" => z[7] = sent'[e]
         /\ rfLink'[c] = "open" /\ heard'[c] # <<>> => z[0] = y
  BY DEF Ordered, Leads, Chained, Own, Packet, Said
<1> QED BY <1>7, <1>8

LEMMA GrownOrdered ==
    ASSUME Ready, NEW e \in Radios, NEW c \in Radios,
           Ordered(e, c), Grown(e, Line(e, c), Line(e, c)'), heard'[c] = heard[c],
           rfLink[e] = "open", rfLink' = rfLink
    PROVE  Ordered(e, c)'
<1>1. PICK a \in Int, b \in Int, k \in Counts :
         /\ Leads(e, a, heard[c], b) /\ Chained(e, k, Line(e, c))
         /\ rfLink[e] # "closed" => k[7] = sent[e]
         /\ rfLink[c] = "open" /\ heard[c] # <<>> => k[0] = b
  BY DEF Ordered
<1>2. PICK L \in Lines : L = Line(e, c) BY LineTyped DEF Ready
<1>3. PICK M : M = Line(e, c)' OBVIOUS
<1>4. PICK n \in Own(e) : /\ n.data[2] = sent[e] + 1 /\ sent'[e] = sent[e] + 1
                          /\ M[7] = Append(L[7], n) /\ \A i \in 1..6 : M[i] = L[i]
  BY <1>2, <1>3 DEF Grown
<1>5. Chained(e, k, L) /\ n \in Packet /\ n.data[2] = k[7] + 1 BY <1>1, <1>2, <1>4 DEF Own
<1>6. PICK q \in Counts : Chained(e, q, M) /\ q[0] = k[0] /\ q[7] = k[7] + 1
  BY <1>4, <1>5, ChainedGrows
<1>7. /\ Leads(e, a, heard'[c], b) /\ Chained(e, q, Line(e, c)')
      /\ rfLink'[e] # "closed" => q[7] = sent'[e]
      /\ rfLink'[c] = "open" /\ heard'[c] # <<>> => q[0] = b
  BY <1>1, <1>3, <1>4, <1>6
<1>8. Ordered(e, c)' = \E x, y \in Int, z \in Counts :
         /\ Leads(e, x, heard'[c], y) /\ Chained(e, z, Line(e, c)')
         /\ rfLink'[e] # "closed" => z[7] = sent'[e]
         /\ rfLink'[c] = "open" /\ heard'[c] # <<>> => z[0] = y
  BY DEF Ordered, Leads, Chained, Own, Packet, Said
<1> QED BY <1>7, <1>8

\* A message is written to the client that is connected to its port, or
\* missed by those that were not.
Delivered(p, c) ==
    /\ PortOf(c) = p /\ rfLink[c] = "open" /\ csock[p] \in {c, None}
    /\ csock'[p] = c /\ down'[c] = Append(down[c], msg) /\ Unread' = Unread
Missed(p, c) ==
    /\ ~(PortOf(c) = p /\ rfLink[c] = "open" /\ csock[p] = c)
    /\ down'[c] = down[c]

LEMMA SendOneOutcome ==
    ASSUME Types, Ownership, Connected, Passing, SendOne, NEW p, p = Head(hearers)
    PROVE  /\ \A c \in Radios : Delivered(p, c) \/ Missed(p, c)
           /\ \A e \in Radios : \/ Unread'[e] = Unread[e]
                                \/ rfLink[e] = "closed" /\ Unread'[e] = <<>>
<1>1. p \in socks /\ msg \in Packet BY SendOneHears
<1>2. p \in Ports BY <1>1, PortsInPorts
<1>3. PICK x : x = conn(p) OBVIOUS
<1>4. rfLink' = rfLink BY DEF SendOne, clientVars
<1>5. csock[p] # None => x = csock[p] BY <1>3 DEF conn
<1>6. \A c \in Radios : c # None /\ c \in Clients BY RadiosPorts, RadioAssumption
<1>7. CASE ~active(p) /\ UNCHANGED sockVars
  <2>1. Unread' = Unread /\ down' = down BY <1>7, SocketsSame DEF sockVars
  <2>2. csock[p] = None BY <1>3, <1>5, <1>7 DEF active
  <2> QED BY <1>6, <2>1, <2>2 DEF Missed
<1>8. CASE active(p) /\ rfLink[conn(p)] = "closed" /\ close(p)
  <2>1. x \in Radios /\ Unread' = [Unread EXCEPT ![x] = <<>>]
    BY <1>1, <1>3, <1>4, <1>8, CloseView
  <2>2. Unread'[x] = <<>> /\ \A e \in Radios \ {x} : Unread'[e] = Unread[e]
    BY <2>1, UnreadDomain
  <2>3. down' = down BY <1>8 DEF close
  <2>4. rfLink[x] = "closed" BY <1>3, <1>8
  <2> QED BY <1>5, <1>6, <2>2, <2>3, <2>4 DEF Missed
<1>9. CASE /\ active(p) /\ rfLink[conn(p)] = "open"
           /\ down' = [down EXCEPT ![conn(p)] = Append(@, msg)]
           /\ Keep(p, conn(p)) /\ UNCHANGED <<up, buf>>
  <2>1. x # None /\ x \in Clients /\ PortOf(x) = p /\ rfLink[x] = "open"
    BY <1>2, <1>3, <1>9, Connection DEF active, Types
  <2>2. Unread' = Unread BY <1>2, <1>4, <1>9, KeepUnread
  <2>3. csock'[p] = x BY <1>2, <1>3, <1>9 DEF Keep, Types, SocketTypes
  <2>4. down'[x] = Append(down[x], msg) /\ \A c \in Clients \ {x} : down'[c] = down[c]
    BY <1>3, <1>9, <2>1 DEF Types, DownTypes
  <2>5. ASSUME NEW c \in Radios, c # x
        PROVE  Missed(p, c)
    BY <1>5, <1>6, <2>4, <2>5 DEF Missed
  <2>6. Delivered(p, x) BY <1>5, <2>1, <2>2, <2>3, <2>4 DEF Delivered
  <2> QED BY <2>2, <2>5, <2>6
<1> QED BY <1>1, <1>7, <1>8, <1>9 DEF SendOne, SendMsg

LEMMA HeardSame ==
    ASSUME Types, Types', HNext, NEW c \in Clients, Len(down'[c]) <= Len(down[c])
    PROVE  heard'[c] = heard[c]
<1>1. Len(down'[c]) \in Nat /\ Len(down[c]) \in Nat
  <2>1. down'[c] \in Seq(Bytes') /\ down[c] \in Seq(Bytes) BY DEF Types, DownTypes
  <2> QED BY <2>1
<1>2. ~Written(c) BY <1>1 DEF Written
<1> QED BY <1>2 DEF HNext

LEMMA HeardNext ==
    ASSUME Types, HNext, NEW c \in Clients, NEW n, down'[c] = Append(down[c], n)
    PROVE  heard'[c] = Append(heard[c], n)
<1>1. PICK d \in Seq(Bytes) : d = down[c] BY DEF Types, DownTypes
<1>2. PICK v : v = Append(d, n) OBVIOUS
<1>3. Len(v) = Len(d) + 1 /\ Len(d) \in Nat /\ v[Len(v)] = n BY <1>2
<1>4. Written(c) BY <1>1, <1>2, <1>3 DEF Written
<1> QED BY <1>1, <1>2, <1>3, <1>4 DEF HNext

LEMMA OthersWriteNothing ==
    ASSUME Types, Next, ~SendOne, NEW c \in Radios
    PROVE  Len(down'[c]) <= Len(down[c])
<1>1. PICK d \in Seq(Bytes) : d = down[c] BY RadiosPorts DEF Types, DownTypes
<1>2. c \in Clients /\ PortOf(c) \in socks BY RadiosPorts
<1>3. Len(d) \in Nat BY <1>1
<1>4. ASSUME down'[c] = down[c] PROVE Len(down'[c]) <= Len(down[c]) BY <1>1, <1>3, <1>4
<1>5. ASSUME NEW p \in Ports \ socks, NEW m, SendMsg(p, m) PROVE down'[c] = down[c]
  <2>1. conn(p) # c BY <1>2, <1>5, Connection, RadioAssumption DEF Types
  <2> QED BY <1>2, <1>5, <2>1 DEF SendMsg, sockVars, close, Types, DownTypes
<1>6. CASE Emulator
  <2>1. MITM \in Ports \ socks /\ RECVR \in Ports \ socks BY PortsInPorts, PortsApart
  <2>2. down'[c] = down[c]
    <3>1. CASE ProbeRead BY <3>1 DEF ProbeRead, sockVars, close, Recv
    <3>2. CASE RecvrSend
      <4>1. CASE SendMsg(RECVR, Trace) BY <1>5, <2>1, <4>1
      <4>2. CASE ~SendMsg(RECVR, Trace) BY <3>2, <4>2 DEF RecvrSend, sockVars
      <4> QED BY <4>1, <4>2
    <3>3. CASE PollPort BY <3>3 DEF PollPort
    <3>4. CASE ReadOne
      BY <3>4 DEF ReadOne, ReadMsg, ReadNone, sockVars, close, Recv
    <3>5. CASE MitmActive BY <3>5 DEF MitmActive
    <3>6. CASE ForwardOne
      <4>1. SendMsg(MITM, Head(fwd)) BY <3>6 DEF ForwardOne
      <4> QED BY <1>5, <2>1, <4>1
    <3>7. CASE MitmReadOne
      BY <3>7 DEF MitmReadOne, ReadMsg, ReadNone, sockVars, close, Recv
    <3>8. CASE Route BY <3>8 DEF Route, sockVars
    <3> QED BY <1>6, <3>1, <3>2, <3>3, <3>4, <3>5, <3>6, <3>7, <3>8 DEF Emulator
  <2> QED BY <1>4, <2>2
<1>7. CASE \E x \in Clients : Client(x)
  <2>1. PICK x \in Clients : Client(x) BY <1>7
  <2>2. CASE Reads(x)
    <3>1. d # <<>> => Len(Tail(d)) <= Len(d) BY <1>1
    <3> QED BY <1>1, <1>2, <1>4, <2>2, <3>1 DEF Reads, Types, DownTypes
  <2>3. CASE HangUp(x)
    <3>1. Len(<<>>) = 0 OBVIOUS
    <3> QED BY <1>1, <1>2, <1>3, <1>4, <2>3, <3>1 DEF HangUp, Types, DownTypes
  <2>4. CASE Connect(x) \/ NewMessage(x) \/ MitmGives(x)
    BY <1>4, <2>4 DEF Connect, NewMessage, MitmGives, Writes
  <2> QED BY <2>1, <2>2, <2>3, <2>4 DEF Client, ClientReads, MitmTakes
<1> QED BY <1>6, <1>7 DEF Next

\* A connection ends only when its client has hung up.
LEMMA StaysConnected ==
    ASSUME Types, [Next]_vars, NEW q \in Ports, NEW c \in Clients, csock[q] = c
    PROVE  csock'[q] = c \/ rfLink[c] = "closed"
<1>1. c # None BY RadioAssumption
<1>2. CASE Emulator
  <2>1. PICK p \in Ports : Op(p) BY <1>2, EmulatorOps
  <2>2. p = q => conn(p) = c BY <1>1 DEF conn
  <2>3. CASE UNCHANGED sockVars BY <2>3 DEF sockVars
  <2>4. CASE Keep(p, conn(p)) BY <2>2, <2>4 DEF Keep, Types, SocketTypes
  <2>5. CASE rfLink[conn(p)] = "closed" /\ close(p)
    BY <2>2, <2>5 DEF close, Keep, Types, SocketTypes
  <2> QED BY <2>1, <2>3, <2>4, <2>5 DEF Op, Recv
<1>3. CASE \E x \in Clients : Client(x)
  BY <1>3 DEF Client, Connect, HangUp, NewMessage, ClientReads, MitmTakes, MitmGives,
              Writes, Reads
<1>4. CASE UNCHANGED vars BY <1>4 DEF vars
<1> QED BY <1>2, <1>3, <1>4 DEF Next

LEMMA NextAudience ==
    ASSUME Types, Types', Ownership, Connected, Passing, HNext, NEW c \in Radios, Audience(c)
    PROVE  Audience(c)'
<1>1. [Next]_vars /\ c \in Clients /\ PortOf(c) \in Ports BY RadiosPorts DEF HNext
<1>2. rfLink[c] = "closed" => rfLink'[c] = "closed" BY <1>1, StaysClosed
<1>3. csock[PortOf(c)] = c => csock'[PortOf(c)] = c \/ rfLink[c] = "closed"
  BY <1>1, StaysConnected
<1>4. Audience(c)' = /\ heard'[c] \in Seq(For(PortOf(c)))
                     /\ heard'[c] # <<>> => csock'[PortOf(c)] = c \/ rfLink'[c] = "closed"
  BY DEF Audience, For, Packet, Said, direct, PortOf
<1>5. CASE heard'[c] = heard[c] BY <1>2, <1>3, <1>4, <1>5 DEF Audience
<1>6. CASE SendOne
  <2>1. PICK p : p = Head(hearers) OBVIOUS
  <2>2. msg \in For(p) BY <1>6, <2>1, SendOneHears
  <2>3. Delivered(p, c) \/ Missed(p, c) BY <1>6, <2>1, SendOneOutcome
  <2>4. CASE Delivered(p, c)
    <3>1. heard'[c] = Append(heard[c], msg) BY <1>1, <2>4, HeardNext DEF Delivered
    <3>2. heard'[c] \in Seq(For(PortOf(c))) BY <2>2, <2>4, <3>1, AppendProperties DEF Audience, Delivered
    <3> QED BY <1>4, <2>4, <3>2 DEF Delivered
  <2>5. CASE Missed(p, c)
    <3>1. Len(down'[c]) <= Len(down[c])
      <4>1. PICK d \in Seq(Bytes) : d = down[c] BY <1>1 DEF Types, DownTypes
      <4> QED BY <2>5, <4>1 DEF Missed
    <3> QED BY <1>1, <1>5, <3>1, HeardSame
  <2> QED BY <2>3, <2>4, <2>5
<1>7. CASE ~SendOne
  <2>1. Len(down'[c]) <= Len(down[c]) BY <1>7, OthersWriteNothing DEF HNext
  <2> QED BY <1>1, <1>5, <2>1, HeardSame
<1> QED BY <1>6, <1>7

LEMMA SendOneOrdered ==
    ASSUME Ready, Types', HNext, SendOne, NEW e \in Radios, NEW c \in Radios,
           Ordered(e, c), Audience(c)
    PROVE  Ordered(e, c)'
<1>1. PICK p : p = Head(hearers) OBVIOUS
<1>2. /\ p \in socks /\ msg \in Packet
      /\ \E i \in DOMAIN hearers : hearers[i] = p
      /\ \A i \in DOMAIN hearers' : msg' = msg /\ hearers'[i] # p
      /\ \A i \in DOMAIN hearers' : \E j \in DOMAIN hearers : hearers[j] = hearers'[i]
      /\ \A q \in socks \ {p} : (\E i \in DOMAIN hearers : hearers[i] = q)
                                  => \E i \in DOMAIN hearers' : hearers'[i] = q
  BY <1>1, SendOneHears DEF Ready
<1>3. /\ Delivered(p, c) \/ Missed(p, c)
      /\ Unread'[e] = Unread[e] \/ (rfLink[e] = "closed" /\ Unread'[e] = <<>>)
  BY <1>1, SendOneOutcome DEF Ready
<1>4. c \in Clients /\ c # None /\ PortOf(c) \in socks BY RadiosPorts, RadioAssumption
<1>5. down'[c] = down[c] => heard'[c] = heard[c]
  <2>1. PICK d \in Seq(Bytes) : d = down[c] BY <1>4 DEF Ready, Types, DownTypes
  <2> QED BY <1>4, <2>1, HeardSame DEF Ready
<1>6. /\ pc = "send" /\ pc' \in {"poll", "send"}
      /\ UNCHANGED <<rfLink, sent, msgs, fwd, recvd>>
  BY DEF SendOne, clientVars
<1>7. UNCHANGED <<Back, Shown, Out>> /\ Through' = Through /\ Batch' = Batch
  <2>1. p \in Ports \ {MITM} /\ p \in Ports BY <1>2, PortsInPorts, PortsApart
  <2>2. Op(p) BY <1>1, <2>1, SendMsgIsOp DEF SendOne
  <2>3. MitmSame BY <2>1, <2>2, Elsewhere DEF SendOne, Ready
  <2>4. UNCHANGED <<Back, Shown, Out>> BY <2>3, MitmUnmoved DEF Ready
  <2> QED BY <1>6, <2>4 DEF Through, Batch
<1>8. CASE p # PortOf(c)
  <2>1. Coming(c)' = Coming(c)
    <3>1. (\E i \in DOMAIN hearers' : hearers'[i] = PortOf(c))
            <=> (\E i \in DOMAIN hearers : hearers[i] = PortOf(c))
      BY <1>2, <1>4, <1>8
    <3>2. (\E i \in DOMAIN hearers' : hearers'[i] = PortOf(c)) => msg' = msg BY <1>2
    <3> QED BY <3>1, <3>2 DEF Coming
  <2>2. Moved(e, Line(e, c), Line(e, c)')
    <3>1. \A i \in 1..6 : Line(e, c)'[i] = Line(e, c)[i] BY <1>7, <2>1, Places
    <3>2. CASE Unread'[e] = Unread[e]
      <4>1. Line(e, c)' = Line(e, c) BY <1>7, <2>1, <3>2 DEF Line
      <4> QED BY <4>1 DEF Moved
    <3>3. CASE rfLink[e] = "closed" /\ Unread'[e] = <<>>
      <4>1. Ended(e, Line(e, c), Line(e, c)') BY <3>1, <3>3, Places DEF Ended
      <4> QED BY <4>1 DEF Moved
    <3> QED BY <1>3, <3>2, <3>3
  <2>3. heard'[c] = heard[c] BY <1>3, <1>5, <1>8 DEF Delivered, Missed
  <2> QED BY <1>6, <2>2, <2>3, MovedOrdered
<1>9. CASE p = PortOf(c)
  <2>1. PICK a \in Int, b \in Int, k \in Counts :
           /\ Leads(e, a, heard[c], b) /\ Chained(e, k, Line(e, c))
           /\ rfLink[e] # "closed" => k[7] = sent[e]
           /\ rfLink[c] = "open" /\ heard[c] # <<>> => k[0] = b
    BY DEF Ordered
  <2>2. PICK L \in Lines : L = Line(e, c) BY LineTyped DEF Ready
  <2>3. PICK M : M = Line(e, c)' OBVIOUS
  <2>4. L[1] = <<msg>> /\ M[1] = <<>>
    <3>1. Coming(c) = <<msg>> /\ Coming(c)' = <<>> BY <1>2, <1>9 DEF Coming
    <3> QED BY <2>2, <2>3, <3>1, Places
  <2>5. \A i \in 2..6 : M[i] = L[i] BY <1>7, <2>2, <2>3, Places
  <2>6. M[7] = L[7] \/ (rfLink[e] = "closed" /\ M[7] = <<>>) BY <1>3, <2>2, <2>3, Places
  <2>7. PICK N : N = [L EXCEPT ![7] = M[7]] OBVIOUS
  <2>8. N[7] = M[7] /\ \A i \in 1..6 : N[i] = L[i] BY <2>7 DEF Lines
  <2>9. PICK q \in Counts : Chained(e, q, N) /\ q[0] = k[0] /\ (rfLink[e] # "closed" => q[7] = k[7])
    <3>1. CASE M[7] = L[7]
      <4>1. N = L BY <2>7, <3>1 DEF Lines
      <4> QED BY <2>1, <2>2, <4>1
    <3>2. CASE rfLink[e] = "closed" /\ M[7] = <<>> BY <2>1, <2>2, <2>8, <3>2, ChainedBack
    <3> QED BY <2>6, <3>1, <3>2
  <2>10. PICK z \in Counts : Chained(e, z, M) /\ z[0] = q[1] /\ z[7] = q[7]
    <3>1. \A i \in 2..7 : M[i] = N[i] BY <2>5, <2>8
    <3>2. Chained(e, [q EXCEPT ![0] = q[1]], M) /\ [q EXCEPT ![0] = q[1]] \in Counts
      BY <2>4, <2>9, <3>1, ChainedFront
    <3>3. PICK z : z = [q EXCEPT ![0] = q[1]] OBVIOUS
    <3>4. z[0] = q[1] /\ z[7] = q[7] BY <3>3 DEF Counts
    <3> QED BY <3>2, <3>3, <3>4
  <2>11. Leads(e, q[0], <<msg>>, q[1]) /\ q[0] \in Int /\ q[1] \in Int
    <3>1. Leads(e, q[1 - 1], N[1], q[1]) BY <2>9 DEF Chained
    <3>2. 1 - 1 = 0 /\ N[1] = <<msg>> BY <2>4, <2>8
    <3> QED BY <3>1, <3>2 DEF Counts
  <2>12. \E x, y \in Int : /\ Leads(e, x, heard'[c], y)
                           /\ rfLink[c] = "open" /\ heard'[c] # <<>> => z[0] = y
    <3>1. CASE Delivered(p, c)
      <4>1. heard'[c] = Append(heard[c], msg) BY <1>4, <3>1, HeardNext DEF Ready, Delivered
      <4>2. PICK h \in Seq(Packet) : h = heard[c]
        <5>1. heard[c] \in Seq(Packet) BY DEF Audience, For
        <5> QED BY <5>1
      <4>3. PICK x \in Int : Leads(e, x, h, q[0])
        <5>1. CASE h = <<>> BY <2>11, <5>1, LeadsNothing
        <5>2. CASE h # <<>> BY <2>1, <2>9, <3>1, <4>2, <5>2 DEF Delivered
        <5> QED BY <5>1, <5>2
      <4>4. PICK one : one = <<msg>> OBVIOUS
      <4>5. one \in Seq(Packet) /\ one # <<>> /\ Head(one) = msg /\ Tail(one) = <<>>
        <5>1. PICK n \in Packet : n = msg BY <1>2
        <5>2. <<n>> \in Seq(Packet) /\ <<n>> # <<>> /\ Head(<<n>>) = n /\ Tail(<<n>>) = <<>> OBVIOUS
        <5> QED BY <4>4, <5>1, <5>2
      <4>6. PICK mid \in Int : Leads(e, x, Append(h, msg), mid) /\ Leads(e, mid, <<>>, q[1])
        <5>1. Leads(e, q[0], one, q[1]) /\ q[0] \in Int /\ q[1] \in Int BY <2>11, <4>4
        <5>2. \E mid \in Int : Leads(e, x, Append(h, Head(one)), mid) /\ Leads(e, mid, Tail(one), q[1])
          BY <4>3, <4>5, <5>1, LeadsOn
        <5> QED BY <4>5, <5>2
      <4>7. mid = q[1] BY <4>6, LeadsNothing
      <4> QED BY <2>10, <4>1, <4>2, <4>6, <4>7
    <3>2. CASE Missed(p, c)
      <4>1. heard'[c] = heard[c] BY <1>5, <3>2 DEF Missed
      <4>2. rfLink[c] = "open" => heard[c] = <<>> BY <1>9, <3>2 DEF Audience, Missed
      <4> QED BY <2>1, <4>1, <4>2
    <3> QED BY <1>3, <3>1, <3>2
  <2>13. rfLink'[e] # "closed" => z[7] = sent'[e] BY <1>6, <2>1, <2>9, <2>10
  <2>14. Ordered(e, c)' = \E x, y \in Int, w \in Counts :
           /\ Leads(e, x, heard'[c], y) /\ Chained(e, w, Line(e, c)')
           /\ rfLink'[e] # "closed" => w[7] = sent'[e]
           /\ rfLink'[c] = "open" /\ heard'[c] # <<>> => w[0] = y
    BY DEF Ordered, Leads, Chained, Own, Packet, Said
  <2> QED BY <1>6, <2>3, <2>10, <2>12, <2>13, <2>14
<1> QED BY <1>8, <1>9

-----------------------------------------------------------------------------
(* The theorem.                                                            *)

InOrder ==
    /\ Passing
    /\ \A c \in Radios : Audience(c)
    /\ NoneLeft =>
          /\ Idle
          /\ \A e, c \in Radios : Own(e) \subseteq For(PortOf(c)) => Ordered(e, c)

\* A step other than a sending, and what it does to what e has on its way to c.
LEMMA OrderedOn ==
    ASSUME Ready, Types', HNext, ~SendOne, NEW e \in Radios, NEW c \in Radios,
           Ordered(e, c), Audience(c), sent'[e] = sent[e],
           Moved(e, Line(e, c), Line(e, c)')
    PROVE  Ordered(e, c)'
<1>1. Types /\ Connected /\ Next /\ [Next]_vars BY DEF Ready, HNext
<1>2. e \in Clients /\ c \in Clients BY RadiosPorts
<1>3. heard'[c] = heard[c] BY <1>1, <1>2, OthersWriteNothing, HeardSame
<1>4. /\ rfLink[e] = "closed" => rfLink'[e] = "closed"
      /\ rfLink[c] = "closed" => rfLink'[c] = "closed"
  BY <1>1, <1>2, StaysClosed
<1>5. heard[c] # <<>> => rfLink[c] # "unused"
  BY <1>1, <1>2 DEF Audience, Connected, Lives, Held
<1>6. rfLink[c] \in {"unused", "open", "closed"} BY <1>1, <1>2 DEF Types, ClientTypes
<1> QED BY <1>3, <1>4, <1>5, <1>6, MovedOrdered

LEMMA SendOneIdle == Ready /\ SendOne => Idle'
<1> SUFFICES ASSUME Ready, SendOne PROVE Idle' OBVIOUS
<1>1. PICK p : p = Head(hearers) OBVIOUS
<1>2. p \in socks BY <1>1, SendOneHears DEF Ready
<1>3. p \in Ports \ {MITM} /\ p \in Ports BY <1>2, PortsInPorts, PortsApart
<1>4. Op(p) BY <1>1, <1>3, SendMsgIsOp DEF SendOne
<1>5. MitmSame BY <1>3, <1>4, Elsewhere DEF SendOne, Ready
<1>6. Resting' BY <1>5, MitmUnmoved DEF Ready, Idle
<1>7. pc' \in {"poll", "send"} BY DEF SendOne
<1> QED BY <1>6, <1>7 DEF Idle

LEMMA NextOrdered ==
    ASSUME Ready, Types', HNext, NoneLeft', \A c \in Radios : Audience(c),
           \A e, c \in Radios : Own(e) \subseteq For(PortOf(c)) => Ordered(e, c)
    PROVE  /\ Idle'
           /\ \A e, c \in Radios : Own(e) \subseteq For(PortOf(c)) => Ordered(e, c)'
<1> DEFINE Kept == \A e, c \in Radios : Own(e) \subseteq For(PortOf(c)) => Ordered(e, c)'
<1>1. ASSUME ~SendOne, UNCHANGED sent,
             \A e, c \in Radios :
                 Own(e) \subseteq For(PortOf(c)) => Moved(e, Line(e, c), Line(e, c)')
      PROVE  Kept
  BY <1>1, OrderedOn
<1>2. CASE SendOne
  <2>1. Kept BY <1>2, SendOneOrdered
  <2> QED BY <1>2, <2>1, SendOneIdle
<1>3. CASE Emulator /\ ~SendOne
  <2>1. UNCHANGED sent
    <3>1. UNCHANGED clientVars BY <1>3, EmulatorOps DEF Ready
    <3> QED BY <3>1 DEF clientVars
  <2>2. Idle' /\ \A e, c \in Radios :
                   Own(e) \subseteq For(PortOf(c)) => Moved(e, Line(e, c), Line(e, c)')
    <3>1. CASE ProbeRead BY <3>1, ProbeReadMoves DEF Moved
    <3>2. CASE RecvrSend BY <3>2, RecvrSendMoves DEF Moved
    <3>3. CASE PollPort BY <3>3, PollPortMoves DEF Moved
    <3>4. CASE ReadOne BY <3>4, ReadOneMoves
    <3>5. CASE MitmActive BY <3>5, MitmActiveMoves DEF Moved
    <3>6. CASE ForwardOne BY <3>6, ForwardOneMoves DEF Moved
    <3>7. CASE MitmReadOne BY <3>7, MitmReadOneMoves DEF Moved
    <3>8. CASE Route BY <3>8, RouteMoves
    <3> QED BY <1>3, <3>1, <3>2, <3>3, <3>4, <3>5, <3>6, <3>7, <3>8 DEF Emulator
  <2> QED BY <1>1, <1>3, <2>1, <2>2
<1>4. CASE (\E x \in Clients : Client(x)) /\ ~SendOne
  <2>1. PICK x \in Clients : Client(x) BY <1>4
  <2>2. CASE NewMessage(x)
    <3>1. /\ Idle' /\ rfLink[x] = "open" /\ rfLink' = rfLink
          /\ \A e, c \in Radios : \/ sent'[e] = sent[e] /\ Line(e, c)' = Line(e, c)
                                  \/ e = x /\ Grown(e, Line(e, c), Line(e, c)')
      BY <2>2, NewMessageMoves
    <3>2. ASSUME NEW e \in Radios, NEW c \in Radios, Own(e) \subseteq For(PortOf(c))
          PROVE  Ordered(e, c)'
      <4>1. Ordered(e, c) /\ Audience(c) BY <3>2
      <4>2. CASE sent'[e] = sent[e] /\ Line(e, c)' = Line(e, c)
        BY <1>4, <4>1, <4>2, OrderedOn DEF Moved
      <4>3. CASE e = x /\ Grown(e, Line(e, c), Line(e, c)')
        <5>1. heard'[c] = heard[c]
          BY <1>4, RadiosPorts, OthersWriteNothing, HeardSame DEF Ready, HNext
        <5> QED BY <3>1, <4>1, <4>3, <5>1, GrownOrdered
      <4> QED BY <3>1, <4>2, <4>3
    <3> QED BY <3>1, <3>2
  <2>3. CASE ~NewMessage(x)
    <3>1. UNCHANGED sent
      BY <2>1, <2>3 DEF Client, Connect, HangUp, ClientReads, MitmTakes, MitmGives, Reads
    <3>2. Idle' /\ \A e, c \in Radios : Moved(e, Line(e, c), Line(e, c)')
      <4>1. CASE Connect(x) BY <4>1, ConnectMoves DEF Moved
      <4>2. CASE HangUp(x) BY <4>2, HangUpMoves DEF Moved
      <4>3. CASE ClientReads(x) BY <4>3, ClientReadsMoves DEF Moved
      <4>4. CASE MitmTakes(x) BY <4>4, MitmTakesMoves DEF Moved
      <4>5. CASE MitmGives(x) BY <4>5, MitmGivesMoves DEF Moved
      <4> QED BY <2>1, <2>3, <4>1, <4>2, <4>3, <4>4, <4>5 DEF Client
    <3> QED BY <1>1, <1>4, <3>1, <3>2
  <2> QED BY <2>2, <2>3
<1> QED BY <1>2, <1>3, <1>4 DEF HNext, Next

LEMMA NextInOrder ==
    Types /\ Types' /\ Ownership /\ Connected /\ InOrder /\ [HNext]_<<vars, heard>> => InOrder'
<1> SUFFICES ASSUME Types, Types', Ownership, Connected, InOrder, [HNext]_<<vars, heard>>
             PROVE  InOrder'
  OBVIOUS
<1>1. CASE HNext
  <2>1. [Next]_vars BY <1>1 DEF HNext
  <2>2. Passing' BY <2>1, NextPassing DEF InOrder
  <2>3. \A c \in Radios : Audience(c)' BY <1>1, NextAudience DEF InOrder
  <2>4. NoneLeft' => NoneLeft BY <2>1, NextNoneLeft
  <2>5. NoneLeft' => /\ Idle'
                     /\ \A e, c \in Radios : Own(e) \subseteq For(PortOf(c)) => Ordered(e, c)'
    <3> SUFFICES ASSUME NoneLeft'
                 PROVE  /\ Idle'
                        /\ \A e, c \in Radios :
                              Own(e) \subseteq For(PortOf(c)) => Ordered(e, c)'
      OBVIOUS
    <3>1. Ready BY <2>4 DEF Ready, InOrder
    <3> QED BY <1>1, <2>4, <3>1, NextOrdered DEF InOrder
  <2>6. InOrder' =
          /\ Passing'
          /\ \A c \in Radios : Audience(c)'
          /\ NoneLeft' =>
                /\ Idle'
                /\ \A e, c \in Radios : Own(e) \subseteq For(PortOf(c)) => Ordered(e, c)'
    BY DEF InOrder, Own, For, Packet, Said, direct, PortOf, Radios
  <2> QED BY <2>2, <2>3, <2>5, <2>6
<1>2. CASE UNCHANGED <<vars, heard>>
  <2>1. UNCHANGED <<rfLink, up, down, sent, inHand, waiting, csock, buf, pc, msgs, fwd,
                    recvd, msg, hearers, heard>>
    BY <1>2 DEF vars
  <2>2. Passing' <=> Passing BY <2>1 DEF Passing, For, direct
  <2>3. NoneLeft' <=> NoneLeft BY <2>1 DEF NoneLeft
  <2>4. Idle' <=> Idle BY <2>1 DEF Idle, Resting
  <2>5. \A c : Audience(c)' <=> Audience(c) BY <2>1 DEF Audience, For, direct
  <2>6. \A e, c : Ordered(e, c)' <=> Ordered(e, c)
    <3>1. Unread' = Unread BY <2>1, SocketsSame
    <3>2. UNCHANGED <<Through, Back, Shown, Out, Batch>>
      BY <2>1 DEF Through, Back, Shown, Out, Batch
    <3>3. \A e, c : Line(e, c)' = Line(e, c) BY <2>1, <3>1, <3>2, LineSame
    <3> SUFFICES ASSUME NEW e, NEW c PROVE Ordered(e, c)' <=> Ordered(e, c) OBVIOUS
    <3>4. Ordered(e, c)' = \E x, y \in Int, z \in Counts :
             /\ Leads(e, x, heard'[c], y) /\ Chained(e, z, Line(e, c)')
             /\ rfLink'[e] # "closed" => z[7] = sent'[e]
             /\ rfLink'[c] = "open" /\ heard'[c] # <<>> => z[0] = y
      BY DEF Ordered, Leads, Chained, Own, Packet, Said
    <3> QED BY <2>1, <3>3, <3>4 DEF Ordered
  <2> QED BY <2>2, <2>3, <2>4, <2>5, <2>6 DEF InOrder, For, direct
<1> QED BY <1>1, <1>2

LEMMA InitInOrder == HInit => InOrder
<1> SUFFICES ASSUME HInit PROVE InOrder OBVIOUS
<1>1. Passing BY DEF HInit, Init, Passing
<1>2. \A c \in Radios : heard[c] = <<>> /\ Audience(c) BY RadiosPorts DEF HInit, Audience
<1>3. Idle
  <2>1. MITM \in Ports /\ \A m \in MitmClients : m \in Clients BY PortsInPorts DEF Clients
  <2> QED BY <2>1 DEF HInit, Init, Idle, Resting
<1>4. ASSUME NEW e \in Radios, NEW c \in Radios PROVE Ordered(e, c)
  <2>1. Unread[e] = <<>>
    <3>1. csock[PortOf(e)] # e /\ ~Held(e)
      BY RadiosPorts, RadioAssumption DEF HInit, Init, Held
    <3> QED BY <3>1 DEF Unread
  <2>2. \A i \in 1..7 : Line(e, c)[i] = <<>>
    <3>1. csock[MITM] = None BY PortsInPorts DEF HInit, Init
    <3>2. Coming(c) = <<>> /\ Through = <<>> /\ Batch = <<>>
      BY DEF HInit, Init, Coming, Through, Batch
    <3>3. Back = <<>> /\ Shown = <<>> /\ Out = <<>> BY <3>1 DEF Back, Shown, Out
    <3> QED BY <2>1, <3>2, <3>3, Places
  <2>3. PICK k \in Counts : \A i \in 0..7 : k[i] = 0
    <3>1. [i \in 0..7 |-> 0] \in Counts BY DEF Counts
    <3> QED BY <3>1
  <2>4. Chained(e, k, Line(e, c))
    <3>1. Leads(e, 0, <<>>, 0) BY LeadsNothing
    <3>2. \A i \in 1..7 : k[i - 1] = 0 /\ k[i] = 0 BY <2>3
    <3> QED BY <2>2, <3>1, <3>2 DEF Chained
  <2>5. Leads(e, 0, heard[c], 0) BY <1>2, LeadsNothing
  <2>6. sent[e] = 0 /\ k[7] = 0 BY <2>3, RadiosPorts DEF HInit, Init
  <2> QED BY <1>2, <2>4, <2>5, <2>6 DEF Ordered
<1> QED BY <1>1, <1>2, <1>3, <1>4 DEF InOrder

LEMMA InOrderSuffices == InOrder => Consecutive
<1> SUFFICES ASSUME InOrder, NoneLeft, NEW e \in Radios, NEW c \in Radios, AllOrNone(e, c),
                    NEW i \in 1..(Len(HeardFrom(e, c)) - 1)
             PROVE  HeardFrom(e, c)[i + 1] = HeardFrom(e, c)[i] + 1
  BY DEF Consecutive, NoneLeft, Senders, Listeners, Radios
<1>1. heard[c] \in Seq(For(PortOf(c))) BY DEF InOrder, Audience
<1>2. PICK own \in Seq(For(PortOf(c))) : own = Select(heard[c], Own(e)) BY <1>1, SelectTyped
<1>3. Len(own) \in Nat /\ DOMAIN own = 1..Len(own) BY <1>2
<1>4. HeardFrom(e, c) = [j \in 1..Len(own) |-> own[j].data[2]] BY <1>2, <1>3 DEF HeardFrom
<1>5. Len(HeardFrom(e, c)) = Len(own) BY <1>3, <1>4
<1>6. i \in 1..Len(own) /\ i + 1 \in 1..Len(own) BY <1>3, <1>5
<1>7. CASE Own(e) \subseteq For(PortOf(c))
  <2>1. PICK a \in Int, b \in Int : Leads(e, a, heard[c], b) BY <1>7 DEF InOrder, Ordered
  <2>2. \A j \in 1..Len(own) : own[j].data[2] = a + j BY <1>2, <2>1 DEF Leads
  <2>3. own[i].data[2] = a + i /\ own[i + 1].data[2] = a + (i + 1) BY <1>6, <2>2
  <2> QED BY <1>4, <1>6, <2>3
<1>8. CASE Own(e) \cap For(PortOf(c)) = {}
  <2>1. own = <<>> BY <1>1, <1>2, <1>8, SelectNone
  <2> QED BY <1>6, <2>1
<1> QED BY <1>7, <1>8 DEF AllOrNone

\* As long as no man in the middle has hung up, a receiver hears the messages
\* of a sender in the order they were written, each once and without a gap:
\* whatever else is read in between, whether or not a man in the middle comes
\* in the middle of it all, and whoever else connects and hangs up.
THEOREM ConsecutiveAlways == HSpec => []Consecutive
<1>1. Types /\ Ownership /\ Connected /\ InOrder => Consecutive BY InOrderSuffices
<1> QED BY <1>1, InitInOrder, NextInOrder, RecordingChangesNothing,
           SpecTyped, SpecOwned, SpecConnected, PTL DEF HSpec
=============================================================================
