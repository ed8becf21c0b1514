-------------------------------- MODULE SSS --------------------------------
(***************************************************************************)
(* The SCEWL Security Server (sss/sss.py) and, as its environment, what    *)
(* the controllers do at the other end of its sockets.                     *)
(*                                                                         *)
(* The server is one thread that loops over three things: new connections, *)
(* the pool of sockets that have not said who they are (unattr), and the   *)
(* table of devices with the socket that registered each (devs).  It is    *)
(* modelled down to the system calls at which another process can change   *)
(* what it sees: every accept, select, recv and send is a step.            *)
(*                                                                         *)
(* A request is 12 bytes that a controller writes in two pieces, the       *)
(* header and the body (send_msg), so the model counts the pieces the      *)
(* server has not read yet; the answer is one send.  A socket is named     *)
(* after the boot that connected it.                                       *)
(*                                                                         *)
(* Operators named X_likeThis are not part of the specification: each is X *)
(* with a mistake in it, to show that a property notices the mistake.      *)
(***************************************************************************)
EXTENDS Scewl, Naturals

VARIABLES
    link,      \* "unused", "open", or "closed" by the device's end
    phase,     \* the controller's side: "idle", "half" written, or "wait"
    reqOp,     \* op of the request the controller wrote last
    arrived,   \* pieces of that request the server can still read
    reply,     \* the answer the controller has not read yet
    backlog,   \* connections not accepted yet
    unattr,    \* unattributed_socks
    devs,      \* self.devs: the table of devices
    closed,    \* sockets on which the server has called close()
    sssPc,     \* where the server is in its loop
    cur,       \* the socket handle_transaction is working on
    got,       \* pieces of the request in `data`
    todo,      \* what the current for loop has not reached yet
    oldIds     \* old_ids

clientVars == <<link, phase, reqOp, arrived, reply>>
serverVars == <<unattr, devs, closed, sssPc, cur, got, todo, oldIds>>
vars == <<link, phase, reqOp, arrived, reply, backlog,
          unattr, devs, closed, sssPc, cur, got, todo, oldIds>>

Whole == 2   \* pieces of a request: header and body

\* A Device tuple of the table, and the absence of one.
Device == [status : Ops, csock : Boots]
NoDev  == [status |-> Absent, csock |-> None]

Known(table) == {d \in Devices : table[d] # NoDev}
Recorded == {b \in Boots : \E d \in Devices : devs[d].csock = b}

TypeOK ==
    /\ link \in [Boots -> {"unused", "open", "closed"}]
    /\ phase \in [Boots -> {"idle", "half", "wait"}]
    /\ reqOp \in [Boots -> Ops]
    /\ arrived \in [Boots -> 0..Whole]
    /\ reply \in [Boots -> Data \cup {None}]
    /\ backlog \in SUBSET Boots
    /\ unattr \in SUBSET Boots
    /\ devs \in [Devices -> Device \cup {NoDev}]
    /\ closed \in SUBSET Boots
    /\ sssPc \in {"accept", "unattr", "attr", "recv", "answer", "exited"}
    /\ cur \in Boots \cup {None}
    /\ got \in 0..Whole
    /\ todo \in SUBSET (Boots \cup Devices)
    /\ oldIds \in SUBSET Devices

ClientInit ==
    /\ link = [b \in Boots |-> "unused"]
    /\ phase = [b \in Boots |-> "idle"]
    /\ reqOp = [b \in Boots |-> REG]
    /\ arrived = [b \in Boots |-> 0]
    /\ reply = [b \in Boots |-> None]

ServerInit ==
    /\ backlog = {}
    /\ unattr = {}
    /\ devs = [d \in Devices |-> NoDev]
    /\ closed = {}
    /\ sssPc = "accept"
    /\ cur = None
    /\ got = 0
    /\ todo = {}
    /\ oldIds = {}

Init == ClientInit /\ ServerInit

-----------------------------------------------------------------------------
(* The server.                                                             *)

\* select() reports a socket readable when bytes are queued or at its end.
sock_ready_dataOnly(b) == arrived[b] > 0
sock_ready(b) == arrived[b] > 0 \/ link[b] = "closed"

\* The start of one of the two for loops.
EnterUnattr == sssPc' = "unattr" /\ todo' = unattr
EnterAttr_skipsScan(table) == sssPc' = "accept" /\ todo' = {} /\ oldIds' = {}
EnterAttr(table) == sssPc' = "attr" /\ todo' = Known(table) /\ oldIds' = {}

\* A pending connection is accepted and the loop starts over.
AcceptConn(b) ==
    /\ sssPc = "accept"
    /\ b \in backlog
    /\ backlog' = backlog \ {b}
    /\ unattr' = unattr \cup {b}
    /\ UNCHANGED <<clientVars, devs, closed, sssPc, cur, got, todo, oldIds>>

AcceptNone ==
    /\ sssPc = "accept"
    /\ backlog = {}
    /\ EnterUnattr
    /\ UNCHANGED <<clientVars, backlog, unattr, devs, closed, cur, got, oldIds>>

\* handle_transaction(b) begins.
StartTransaction(b) ==
    /\ sssPc' = "recv"
    /\ cur' = b
    /\ got' = 0

PollUnattr(b) ==
    /\ sssPc = "unattr"
    /\ b \in todo
    /\ IF sock_ready(b)
       THEN StartTransaction(b) /\ todo' = {}
       ELSE todo' = todo \ {b} /\ UNCHANGED <<sssPc, cur, got>>
    /\ UNCHANGED <<clientVars, backlog, unattr, devs, closed, oldIds>>

UnattrDone ==
    /\ sssPc = "unattr"
    /\ todo = {}
    /\ EnterAttr(devs)
    /\ UNCHANGED <<clientVars, backlog, unattr, devs, closed, cur, got>>

\* select() on a socket the server has closed raises ValueError, which no
\* handler catches: the server exits.
PollAttr(d) ==
    /\ sssPc = "attr"
    /\ d \in todo
    /\ todo' = todo \ {d}
    /\ LET b == devs[d].csock IN
       IF b \in closed
       THEN sssPc' = "exited" /\ UNCHANGED <<cur, got>>
       ELSE IF sock_ready(b)
            THEN StartTransaction(b)
            ELSE UNCHANGED <<sssPc, cur, got>>
    /\ UNCHANGED <<clientVars, backlog, unattr, devs, closed, oldIds>>

\* The devices whose connection broke during the scan are forgotten.
AttrDone ==
    /\ sssPc = "attr"
    /\ todo = {}
    /\ devs' = [d \in Devices |-> IF d \in oldIds THEN NoDev ELSE devs[d]]
    /\ sssPc' = "accept"
    /\ oldIds' = {}
    /\ UNCHANGED <<clientVars, backlog, unattr, closed, cur, got, todo>>

\* What the caller of handle_transaction does when it returns (table is the
\* device table at that point), and when it raises.  An unattributed socket
\* leaves its pool either way and ends the scan of that pool.
Leave_keepsSocket(table) ==
    cur' = None /\ got' = 0 /\ unattr' = unattr /\ devs' = table
Leave(table) ==
    /\ cur' = None
    /\ got' = 0
    /\ unattr' = unattr \ {cur}
    /\ devs' = table

Returned_closes(table) ==
    /\ Leave(table)
    /\ IF cur \in unattr
       THEN EnterAttr(table)
       ELSE sssPc' = "attr" /\ UNCHANGED <<todo, oldIds>>
    /\ closed' = closed \cup {cur}
Returned(table) ==
    /\ Leave(table)
    /\ IF cur \in unattr
       THEN EnterAttr(table)
       ELSE sssPc' = "attr" /\ UNCHANGED <<todo, oldIds>>
    /\ UNCHANGED closed

Raised(table) ==
    /\ Leave(table)
    /\ closed' = closed \cup {cur}
    /\ IF cur \in unattr
       THEN EnterAttr(table)
       ELSE sssPc' = "attr" /\ oldIds' = oldIds \cup {IdOf[cur]} /\ UNCHANGED todo

\* recv returns what is queued; the call blocks while nothing is.
Recv ==
    /\ sssPc = "recv"
    /\ arrived[cur] > 0
    /\ got' = got + arrived[cur]
    /\ arrived' = [arrived EXCEPT ![cur] = 0]
    /\ sssPc' = IF got' = Whole THEN "answer" ELSE "recv"
    /\ UNCHANGED <<link, phase, reqOp, reply, backlog, unattr, devs, closed,
                   cur, todo, oldIds>>

RecvEof_whenEmpty ==
    /\ sssPc = "recv"
    /\ arrived[cur] = 0
    /\ Raised(devs)
    /\ UNCHANGED <<clientVars, backlog>>
RecvEof ==
    /\ sssPc = "recv"
    /\ arrived[cur] = 0
    /\ link[cur] = "closed"
    /\ Raised(devs)
    /\ UNCHANGED <<clientVars, backlog>>

\* The table and the answer after request op of socket b.
repeated(b, op) == devs[IdOf[b]].status = op
recorded_always(b, op) ==
    [devs EXCEPT ![IdOf[b]] = [status |-> op, csock |-> b]]
recorded(b, op) ==
    IF repeated(b, op) THEN devs
    ELSE [devs EXCEPT ![IdOf[b]] = [status |-> op, csock |-> b]]
resp_op_neverAlready(b, op) == op
resp_op_alwaysReg(b, op) == IF repeated(b, op) THEN ALREADY ELSE REG
resp_op(b, op) == IF repeated(b, op) THEN ALREADY ELSE op

Answer ==
    /\ sssPc = "answer"
    /\ link[cur] = "open"
    /\ reply' = [reply EXCEPT ![cur] = resp_op(cur, reqOp[cur])]
    /\ Returned(recorded(cur, reqOp[cur]))
    /\ UNCHANGED <<link, phase, reqOp, arrived, backlog>>

\* The device is gone: send raises BrokenPipeError after the table has been
\* written.
AnswerBrokenPipe ==
    /\ sssPc = "answer"
    /\ link[cur] = "closed"
    /\ Raised(recorded(cur, reqOp[cur]))
    /\ UNCHANGED <<clientVars, backlog>>

Server ==
    \/ \E b \in Boots : AcceptConn(b) \/ PollUnattr(b)
    \/ \E d \in Devices : PollAttr(d)
    \/ AcceptNone \/ UnattrDone \/ AttrDone
    \/ Recv \/ RecvEof \/ Answer \/ AnswerBrokenPipe

-----------------------------------------------------------------------------
(* The other end: launches of the devices and their controllers.           *)

\* A SED is launched again only after its last launch has ended.
Connect(b) ==
    /\ link[b] = "unused"
    /\ \A c \in Boots : IdOf[c] = IdOf[b] => link[c] # "open"
    /\ link' = [link EXCEPT ![b] = "open"]
    /\ backlog' = backlog \cup {b}
    /\ UNCHANGED <<phase, reqOp, arrived, reply, serverVars>>

\* The first intf_write of send_msg: the header.
BeginRequest_pipelined(b, op) ==
    /\ link[b] = "open"
    /\ phase' = [phase EXCEPT ![b] = "half"]
    /\ reqOp' = [reqOp EXCEPT ![b] = op]
    /\ arrived' = [arrived EXCEPT ![b] = @ + 1]
    /\ UNCHANGED <<link, reply, backlog, serverVars>>
BeginRequest(b, op) ==
    /\ link[b] = "open"
    /\ phase[b] = "idle"
    /\ phase' = [phase EXCEPT ![b] = "half"]
    /\ reqOp' = [reqOp EXCEPT ![b] = op]
    /\ arrived' = [arrived EXCEPT ![b] = @ + 1]
    /\ UNCHANGED <<link, reply, backlog, serverVars>>

\* The second: the body.
EndRequest(b) ==
    /\ link[b] = "open"
    /\ phase[b] = "half"
    /\ phase' = [phase EXCEPT ![b] = "wait"]
    /\ arrived' = [arrived EXCEPT ![b] = @ + 1]
    /\ UNCHANGED <<link, reqOp, reply, backlog, serverVars>>

\* The blocking read_msg of sss_register and sss_deregister.
TakeReply(b) ==
    /\ link[b] = "open"
    /\ phase[b] = "wait"
    /\ reply[b] # None
    /\ phase' = [phase EXCEPT ![b] = "idle"]
    /\ reply' = [reply EXCEPT ![b] = None]
    /\ UNCHANGED <<link, reqOp, arrived, backlog, serverVars>>

\* The controller's container stops at any moment; what it had written stays
\* readable, what it had not read is lost.
Disconnect(b) ==
    /\ link[b] = "open"
    /\ link' = [link EXCEPT ![b] = "closed"]
    /\ phase' = [phase EXCEPT ![b] = "idle"]
    /\ reply' = [reply EXCEPT ![b] = None]
    /\ UNCHANGED <<reqOp, arrived, backlog, serverVars>>

Client(b) ==
    \/ Connect(b) \/ EndRequest(b) \/ TakeReply(b) \/ Disconnect(b)
    \/ \E op \in Ops : BeginRequest(b, op)

Next == Server \/ \E b \in Boots : Client(b)

Spec == Init /\ [][Next]_vars

\* The server's thread is never suspended for ever, and a controller that has
\* written a header goes on to write the body unless it is stopped.
Fairness ==
    /\ WF_vars(Server)
    /\ \A b \in Boots : WF_vars(EndRequest(b))

FairSpec == Spec /\ Fairness

-----------------------------------------------------------------------------
(* Properties.                                                             *)

\* An entry whose socket the server itself has closed and that it is not about
\* to forget: the next poll of it ends the server.
Doomed(d) == devs[d].csock \in closed /\ d \notin oldIds

\* A connection is in one place at a time - waiting to be accepted,
\* unattributed, or the recorded socket of its own device - and only live
\* launches or launches whose end the server has not noticed are kept.
OneHome ==
    /\ backlog \cap unattr = {}
    /\ (backlog \cup unattr) \cap Recorded = {}
    /\ \A d \in Devices : devs[d] # NoDev => IdOf[devs[d].csock] = d
    /\ \A b \in backlog \cup unattr \cup Recorded : link[b] # "unused"

\* The table tells a live device the truth: while a device that was told REG
\* or DEREG has not read the answer, its entry says so through its own socket,
\* whatever requests of its dead launches are still queued.
AnswerStands ==
    \A b \in Boots :
        LET d == IdOf[b] IN
        reply[b] \in Ops =>
            \/ devs[d] = [status |-> reply[b], csock |-> b]
            \/ Doomed(d)

\* The server goes down only on an entry that a launch left behind by dying
\* before it could be answered.
ExitCause ==
    sssPc = "exited" => \E d \in Devices : Doomed(d) /\ link[devs[d].csock] = "closed"

\* A live launch keeps its entry: no request and no hang-up of another launch
\* takes it away, except the queued request of a dead launch, and that one
\* leaves an entry that ends the server.
HolderKept ==
    [][\A d \in Devices :
          devs[d] # NoDev /\ devs'[d].csock # devs[d].csock
              => link[devs[d].csock] = "closed" \/ Doomed(d)']_vars

\* The server serves no request of a device whose entry is doomed: it exits in
\* the very scan that follows, before the entry can be overwritten.
DoomedUntouched ==
    [][\A d \in Devices : Doomed(d) => devs'[d] = devs[d]]_vars

\* A connection the server still polls gets its answer.
Polled(b) == b \in backlog \cup unattr \cup Recorded
RequestAnswered ==
    \A b \in Boots :
        phase[b] = "wait" /\ Polled(b)
            ~> reply[b] # None \/ link[b] = "closed" \/ sssPc = "exited"

\* The end of a launch is noticed: its entry does not outlive it for ever.
DeadForgotten ==
    \A b \in Boots :
        link[b] = "closed" ~> b \notin Recorded \/ sssPc = "exited"

\* A doomed entry does end the server.
DoomedExits == \A d \in Devices : Doomed(d) ~> sssPc = "exited"

\* The pieces of a request that have arrived or are in the server's hands.
InTransaction == sssPc \in {"recv", "answer"}
InHand(b) == IF InTransaction /\ cur = b THEN got ELSE 0
Unserved == [b \in Boots |-> arrived[b] + InHand(b)]

\* Whatever happens between its system calls, the server keeps the promise of
\* module Registrar: requests take effect one at a time, between their being
\* complete and their answer, and the table changes in no other way.
Promise == INSTANCE Registrar WITH
    arrived <- Unserved, table <- devs, down <- (sssPc = "exited")
IsRegistrar == Promise!Spec

\* getting_started.md:168, of the radio waves emulator and the SSS: "Once these are
\* both live, they should stay up thoughout the lifetime of the system."
StaysUp == sssPc # "exited"
=============================================================================
