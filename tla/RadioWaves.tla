----------------------------- MODULE RadioWaves -----------------------------
(***************************************************************************)
(* The radio waves emulator (radio/radio_waves.py): one thread that polls  *)
(* the side-channel ports and then each antenna, passes what it read to    *)
(* the man in the middle if one is there, and sends it on to the FAA or to *)
(* every SED.  Its environment are the programs at the other ends of its   *)
(* sockets, which come and go: controllers, the FAA transceiver, the       *)
(* man-in-the-middle tool, and the two side-channel tools.                 *)
(*                                                                         *)
(* A step is a call of active, read_msg or send_msg: the accept, select    *)
(* and recv or sendall in it depend on one client only, and nothing that   *)
(* client does between them makes a difference.  sendall blocks while the  *)
(* client has Cap messages unread, so everybody waits for a client that    *)
(* does not read.                                                          *)
(*                                                                         *)
(* A payload is the name of its message: the client that wrote it and how  *)
(* many it had written.  The man in the middle's header, MM, is read by    *)
(* the emulator only; a message it wraps is the message.                   *)
(*                                                                         *)
(* Operators named X_likeThis are X with a mistake in it (see module SSS). *)
(***************************************************************************)
EXTENDS Scewl, Naturals, Sequences

CONSTANTS
    DevOrder,                      \* the devices in the order of their IDs
    FaaClients, MitmClients,       \* runs of faa.py and of mitm.py
    ProbeClients, RecvrClients,    \* side-channel probes and receivers
    SedTargets, FaaTargets,        \* whom SEDs and the FAA write to
    Cap,       \* messages that fit in a socket
    RecvMax,   \* messages that one recv returns
    MaxSent    \* messages that each client writes

MITM  == "MITM"
PROBE == "PROBE"
RECVR == "RECVR"

sockOrder == Append(DevOrder, FAA_ID)     \* the dict of SCEWL sockets
socks == Devices \cup {FAA_ID}
Ports == socks \cup {MITM, PROBE, RECVR}
Clients == Boots \cup FaaClients \cup MitmClients \cup ProbeClients \cup RecvrClients

PortOf(c) == CASE c \in Boots        -> IdOf[c]
               [] c \in FaaClients   -> FAA_ID
               [] c \in MitmClients  -> MITM
               [] c \in ProbeClients -> PROBE
               [] c \in RecvrClients -> RECVR

\* There is a SED at least; a client is a run of one program; the emulator's
\* ports have a path each.
ASSUME RadioAssumption ==
    /\ Cap \in Nat \ {0} /\ RecvMax \in Nat \ {0} /\ MaxSent \in [Clients -> Nat]
    /\ SedTargets \cup FaaTargets \subseteq Ids
    /\ DevOrder \in Seq(Devices) /\ Devices = {DevOrder[i] : i \in DOMAIN DevOrder}
    /\ \A i, j \in DOMAIN DevOrder : DevOrder[i] = DevOrder[j] => i = j
    /\ Devices # {} /\ Devices \cap {MITM, PROBE, RECVR} = {}
    /\ None \notin Clients
    /\ FaaClients \cap Boots = {}
    /\ MitmClients \cap (Boots \cup FaaClients) = {}
    /\ ProbeClients \cap (Boots \cup FaaClients \cup MitmClients) = {}
    /\ RecvrClients \cap (Boots \cup FaaClients \cup MitmClients \cup ProbeClients) = {}

VARIABLES
    rfLink,    \* a client's connection: "unused", "open", or "closed" by it
    up,        \* written by the client, not yet received by the emulator
    down,      \* written by the emulator, not yet read by the client
    sent,      \* messages the client has written
    inHand,    \* the message mitm.py has read and not yet written back
    waiting,   \* clients in each listening socket's backlog
    csock,     \* Sock.csock
    buf,       \* Sock.buf
    pc,        \* where the emulator is
    todo,      \* antennas the main loop has not reached
    port,      \* the antenna being served
    msgs,      \* msgs of poll_scewl_sock and of forward
    fwd,       \* what forward has not sent yet
    recvd,     \* recvd_msgs of forward
    msg,       \* the message being sent on
    hearers,   \* the antennas it has not been sent to
    sc         \* msg of poll_sc_sock

clientVars == <<rfLink, sent, inHand>>
sockVars   == <<up, down, waiting, csock, buf>>
localVars  == <<todo, port, msgs, fwd, recvd, msg, hearers, sc>>
vars == <<rfLink, up, down, sent, inHand, waiting, csock, buf, pc, todo, port,
          msgs, fwd, recvd, msg, hearers, sc>>

\* What c may write: it bears the ID id, and goes to one of targets.
Said(c, id, targets) == [tgt : targets, src : {id}, data : {c} \X (1..MaxSent[c])]
Packet ==
    UNION ({Said(b, IdOf[b], SedTargets) : b \in Boots}
               \cup {Said(f, FAA_ID, FaaTargets) : f \in FaaClients})
NoPacket == packet(None, None, <<None, 0>>)
Trace    == packet(RECVR, PROBE, <<PROBE, 0>>)      \* bytes of the side channel

TypeOK ==
    /\ rfLink \in [Clients -> {"unused", "open", "closed"}]
    /\ \A c \in Clients :
          /\ Len(up[c]) <= Cap /\ Len(down[c]) <= Cap
          /\ \A i \in DOMAIN up[c] : up[c][i] \in Packet \cup {Trace}
          /\ \A i \in DOMAIN down[c] : down[c][i] \in Packet \cup {Trace}
    /\ \A c \in Clients : sent[c] \in 0..MaxSent[c]
    /\ inHand \in [MitmClients -> Packet \cup {NoPacket}]
    /\ csock \in [Ports -> Clients \cup {None}]
    /\ \A p \in Ports : \A i \in DOMAIN buf[p] : buf[p][i] \in Packet
    /\ pc \in {"poll", "recvr", "read", "mitm", "forward", "mitmRead", "send", "exited"}
    /\ \A seq \in {todo, hearers} : \A i \in DOMAIN seq : seq[i] \in socks
    /\ port \in socks \cup {None}
    /\ \A seq \in {msgs, fwd, recvd} : \A i \in DOMAIN seq : seq[i] \in Packet
    /\ msg \in Packet \cup {NoPacket}
    /\ sc \in {None, "empty", "data"}

Init ==
    /\ rfLink = [c \in Clients |-> "unused"]
    /\ up = [c \in Clients |-> <<>>]
    /\ down = [c \in Clients |-> <<>>]
    /\ sent = [c \in Clients |-> 0]
    /\ inHand = [c \in MitmClients |-> NoPacket]
    /\ waiting = [p \in Ports |-> <<>>]
    /\ csock = [p \in Ports |-> None]
    /\ buf = [p \in Ports |-> <<>>]
    /\ pc = "poll"
    /\ todo = <<>> /\ port = None
    /\ msgs = <<>> /\ fwd = <<>> /\ recvd = <<>>
    /\ msg = NoPacket /\ hearers = <<>> /\ sc = None

-----------------------------------------------------------------------------
(* Class Sock.                                                             *)

\* The client that active() leaves in csock, accepting one if it can.
conn(p) == CASE csock[p] # None                       -> csock[p]
             [] csock[p] = None /\ waiting[p] # <<>>  -> Head(waiting[p])
             [] OTHER                                 -> None
active(p) == conn(p) # None

\* csock becomes c (conn(p), or None when the connection is closed).
Keep(p, c) ==
    /\ csock' = [csock EXCEPT ![p] = c]
    /\ waiting' = [waiting EXCEPT ![p] = IF csock[p] = None /\ @ # <<>> THEN Tail(@) ELSE @]

close_keepsBuf(p) == Keep(p, None) /\ UNCHANGED <<buf, up, down>>
close(p) ==
    /\ Keep(p, None)
    /\ buf' = [buf EXCEPT ![p] = <<>>]
    /\ UNCHANGED <<up, down>>

\* recv finds nothing but the end of the stream, whatever buf still holds.
AtEnd(p) == up[conn(p)] = <<>> /\ rfLink[conn(p)] = "closed"

\* One recv, and what is in buf then.
taken(p) == IF Len(up[conn(p)]) < RecvMax THEN Len(up[conn(p)]) ELSE RecvMax
filled(p) == buf[p] \o SubSeq(up[conn(p)], 1, taken(p))
Recv(p) ==
    /\ up' = [up EXCEPT ![conn(p)] = SubSeq(@, taken(p) + 1, Len(@))]
    /\ Keep(p, conn(p))
    /\ UNCHANGED down

\* read_msg returns m, or None.
ReadMsg(p, m) ==
    /\ active(p) /\ ~AtEnd(p)
    /\ filled(p) # <<>>
    /\ m = Head(filled(p))
    /\ buf' = [buf EXCEPT ![p] = Tail(filled(p))]
    /\ Recv(p)

ReadNone(p) ==
    \/ ~active(p) /\ UNCHANGED sockVars
    \/ active(p) /\ AtEnd(p) /\ close(p)
    \/ /\ active(p) /\ ~AtEnd(p)
       /\ filled(p) = <<>>
       /\ Recv(p) /\ UNCHANGED buf

\* send_msg returns, having written m if the client was there.
SendMsg_overruns(p, m) ==
    \/ ~active(p) /\ UNCHANGED sockVars
    \/ active(p) /\ rfLink[conn(p)] = "closed" /\ close(p)
    \/ /\ active(p) /\ rfLink[conn(p)] = "open"
       /\ down' = [down EXCEPT ![conn(p)] = Append(@, m)]
       /\ Keep(p, conn(p))
       /\ UNCHANGED <<up, buf>>
SendMsg_drops(p, m) ==
    \/ ~active(p) /\ UNCHANGED sockVars
    \/ active(p) /\ rfLink[conn(p)] = "closed" /\ close(p)
    \/ /\ active(p) /\ rfLink[conn(p)] = "open"
       /\ down' = [down EXCEPT ![conn(p)] = IF Len(@) < Cap THEN Append(@, m) ELSE @]
       /\ Keep(p, conn(p))
       /\ UNCHANGED <<up, buf>>
SendMsg(p, m) ==
    \/ ~active(p) /\ UNCHANGED sockVars
    \/ active(p) /\ rfLink[conn(p)] = "closed" /\ close(p)
    \/ /\ active(p) /\ rfLink[conn(p)] = "open"
       /\ Len(down[conn(p)]) < Cap
       /\ down' = [down EXCEPT ![conn(p)] = Append(@, m)]
       /\ Keep(p, conn(p))
       /\ UNCHANGED <<up, buf>>

-----------------------------------------------------------------------------
(* The main loop.                                                          *)

\* All that was read from the last antenna has been sent on.
AtPoll == pc = "poll" /\ msgs = <<>>

\* poll_sc_sock: what the probe sent goes to the receiver.  When the probe
\* has hung up msg is None, and sendall(None) raises a TypeError.
ProbeRead_noneWhenEmpty ==
    /\ AtPoll /\ todo = <<>>
    /\ IF active(PROBE)
       THEN /\ pc' = "recvr"
            /\ IF AtEnd(PROBE)
               THEN close(PROBE) /\ sc' = None
               ELSE /\ sc' = IF filled(PROBE) = <<>> THEN None ELSE "data"
                    /\ Recv(PROBE) /\ UNCHANGED buf
            /\ UNCHANGED todo
       ELSE /\ pc' = "poll" /\ todo' = sockOrder
            /\ UNCHANGED <<sockVars, sc>>
    /\ UNCHANGED <<clientVars, port, msgs, fwd, recvd, msg, hearers>>
ProbeRead ==
    /\ AtPoll /\ todo = <<>>
    /\ IF active(PROBE)
       THEN /\ pc' = "recvr"
            /\ IF AtEnd(PROBE)
               THEN close(PROBE) /\ sc' = None
               ELSE /\ sc' = IF filled(PROBE) = <<>> THEN "empty" ELSE "data"
                    /\ Recv(PROBE) /\ UNCHANGED buf
            /\ UNCHANGED todo
       ELSE /\ pc' = "poll" /\ todo' = sockOrder
            /\ UNCHANGED <<sockVars, sc>>
    /\ UNCHANGED <<clientVars, port, msgs, fwd, recvd, msg, hearers>>

\* To send nothing never blocks, but it too notices a receiver that has hung up.
RecvrSend ==
    /\ pc = "recvr"
    /\ IF active(RECVR) /\ sc = None
       THEN pc' = "exited" /\ UNCHANGED <<todo, sockVars>>
       ELSE /\ pc' = "poll" /\ todo' = sockOrder
            /\ IF active(RECVR) /\ rfLink[conn(RECVR)] = "open" /\ sc = "empty"
               THEN Keep(RECVR, conn(RECVR)) /\ UNCHANGED <<up, down, buf>>
               ELSE SendMsg(RECVR, Trace)
    /\ sc' = None
    /\ UNCHANGED <<clientVars, port, msgs, fwd, recvd, msg, hearers>>

PollPort ==
    /\ AtPoll /\ todo # <<>>
    /\ todo' = Tail(todo)
    /\ LET p == Head(todo) IN
       IF active(p)
       THEN pc' = "read" /\ port' = p /\ Keep(p, conn(p))
       ELSE UNCHANGED <<pc, port, csock, waiting>>
    /\ UNCHANGED <<clientVars, up, down, buf, msgs, fwd, recvd, msg, hearers, sc>>

\* read_all_msgs of the antenna.
ReadOne ==
    /\ pc = "read"
    /\ \/ /\ ReadMsg(port, Head(filled(port)))
          /\ msgs' = Append(msgs, Head(filled(port)))
          /\ UNCHANGED pc
       \/ ReadNone(port) /\ pc' = "mitm" /\ UNCHANGED msgs
    /\ UNCHANGED <<clientVars, todo, port, fwd, recvd, msg, hearers, sc>>

\* Everything passes through the man in the middle while there is one.
MitmActive ==
    /\ pc = "mitm"
    /\ IF active(MITM)
       THEN /\ pc' = IF msgs = <<>> THEN "mitmRead" ELSE "forward"
            /\ fwd' = msgs
            /\ Keep(MITM, conn(MITM))
       ELSE pc' = "poll" /\ UNCHANGED <<fwd, csock, waiting>>
    /\ UNCHANGED <<clientVars, up, down, buf, todo, port, msgs, recvd, msg, hearers, sc>>

ForwardOne ==
    /\ pc = "forward"
    /\ SendMsg(MITM, Head(fwd))
    /\ fwd' = Tail(fwd)
    /\ pc' = IF fwd' = <<>> THEN "mitmRead" ELSE "forward"
    /\ UNCHANGED <<clientVars, todo, port, msgs, recvd, msg, hearers, sc>>

\* What forward returns.
forwarded_both == msgs \o recvd
forwarded == IF csock'[MITM] # None THEN recvd ELSE msgs \o recvd

MitmReadOne ==
    /\ pc = "mitmRead"
    /\ \/ /\ ReadMsg(MITM, Head(filled(MITM)))
          /\ recvd' = Append(recvd, Head(filled(MITM)))
          /\ UNCHANGED <<pc, msgs>>
       \/ /\ ReadNone(MITM)
          /\ pc' = "poll"
          /\ msgs' = forwarded
          /\ recvd' = <<>>
    /\ UNCHANGED <<clientVars, todo, port, fwd, msg, hearers, sc>>

\* To and from the FAA directly, all else to every SED.  A message to an ID
\* that has no socket raises a KeyError, which nothing catches.
direct(m) == FAA_ID \in {m.src, m.tgt} /\ m.tgt # BRDCST_ID

Route ==
    /\ pc = "poll"
    /\ msgs # <<>>
    /\ LET m == Head(msgs) IN
       /\ msg' = m
       /\ \/ ~direct(m) /\ hearers' = DevOrder /\ pc' = "send"
          \/ direct(m) /\ m.tgt \in socks /\ hearers' = <<m.tgt>> /\ pc' = "send"
          \/ direct(m) /\ m.tgt \notin socks /\ pc' = "exited" /\ UNCHANGED hearers
    /\ msgs' = Tail(msgs)
    /\ UNCHANGED <<clientVars, sockVars, todo, port, fwd, recvd, sc>>

SendOne ==
    /\ pc = "send"
    /\ SendMsg(Head(hearers), msg)
    /\ hearers' = Tail(hearers)
    /\ IF hearers' = <<>>
       THEN pc' = "poll" /\ msg' = NoPacket
       ELSE UNCHANGED <<pc, msg>>
    /\ UNCHANGED <<clientVars, todo, port, msgs, fwd, recvd, sc>>

Emulator ==
    \/ ProbeRead \/ RecvrSend \/ PollPort \/ ReadOne
    \/ MitmActive \/ ForwardOne \/ MitmReadOne
    \/ Route \/ SendOne

-----------------------------------------------------------------------------
(* The clients.                                                            *)

\* A tool or SED is started again after its last run has ended.
Connect(c) ==
    /\ rfLink[c] = "unused"
    /\ \A e \in Clients : PortOf(e) = PortOf(c) => rfLink[e] # "open"
    /\ rfLink' = [rfLink EXCEPT ![c] = "open"]
    /\ waiting' = [waiting EXCEPT ![PortOf(c)] = Append(@, c)]
    /\ UNCHANGED <<up, down, sent, inHand, csock, buf, pc, localVars>>

Writes(c, m) ==
    /\ rfLink[c] = "open"
    /\ Len(up[c]) < Cap
    /\ up' = [up EXCEPT ![c] = Append(@, m)]
    /\ UNCHANGED <<rfLink, down, waiting, csock, buf, pc, localVars>>

\* A controller, the FAA transceiver or a probe writes its next message.
NewMessage(c) ==
    /\ sent[c] < MaxSent[c]
    /\ sent' = [sent EXCEPT ![c] = @ + 1]
    /\ \/ c \in Boots /\ \E t \in SedTargets : Writes(c, packet(t, IdOf[c], <<c, sent'[c]>>))
       \/ c \in FaaClients /\ \E t \in FaaTargets : Writes(c, packet(t, FAA_ID, <<c, sent'[c]>>))
       \/ c \in ProbeClients /\ Writes(c, Trace)
    /\ UNCHANGED inHand

Reads(c) ==
    /\ rfLink[c] = "open"
    /\ down[c] # <<>>
    /\ down' = [down EXCEPT ![c] = Tail(@)]
    /\ UNCHANGED <<rfLink, up, sent, waiting, csock, buf, pc, localVars>>

ClientReads(c) == c \notin MitmClients /\ Reads(c) /\ UNCHANGED inHand

\* mitm.py reads a message, shows it and writes it back.
MitmTakes(c) ==
    /\ c \in MitmClients
    /\ inHand[c] = NoPacket
    /\ Reads(c)
    /\ inHand' = [inHand EXCEPT ![c] = Head(down[c])]

MitmGives(c) ==
    /\ c \in MitmClients
    /\ inHand[c] # NoPacket
    /\ Writes(c, inHand[c])
    /\ inHand' = [inHand EXCEPT ![c] = NoPacket]
    /\ UNCHANGED sent

\* A client ends at any point.  What it has written can still be received.
HangUp(c) ==
    /\ rfLink[c] = "open"
    /\ rfLink' = [rfLink EXCEPT ![c] = "closed"]
    /\ down' = [down EXCEPT ![c] = <<>>]
    /\ inHand' = [e \in MitmClients |-> IF e = c THEN NoPacket ELSE inHand[e]]
    /\ UNCHANGED <<up, sent, waiting, csock, buf, pc, localVars>>

Client(c) ==
    \/ Connect(c) \/ HangUp(c)
    \/ NewMessage(c) \/ ClientReads(c)
    \/ MitmTakes(c) \/ MitmGives(c)

Next == Emulator \/ \E c \in Clients : Client(c)

Spec == Init /\ [][Next]_vars

\* The emulator's thread and the man in the middle's run.  Nothing makes the
\* other clients read what they are sent: a controller does not while its SED is
\* not registered.
Fairness ==
    /\ WF_vars(Emulator)
    /\ \A c \in MitmClients : WF_vars(MitmTakes(c)) /\ WF_vars(MitmGives(c))

FairSpec == Spec /\ Fairness
=============================================================================
