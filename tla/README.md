# SCEWL: specifications of the eCTF 2021 example system

These modules model the example system in this repository: SEDs (a CPU and a
bus controller each), the SCEWL Security Server (SSS) that registers them, and
the radio waves emulator that carries their messages.  TLC checks the models on
small deployments; TLAPS proves the main results about the SSS, the bus
controller, registration in the whole deployment, the emulator and the looping
receiver for deployments of any size.  Source references are relative to `src/`.

## 1. The system

| part | source | state | operations |
|---|---|---|---|
| SSS | `sss/sss.py` | pool of unattributed sockets, table `devs` (status and socket per SCEWL ID) | accept; `handle_transaction` (recv, table write, send); purge of broken entries |
| bus controller | `controller/controller.c`, `interface.c` | `registered`, one message buffer, position in `main` | relay CPU to antenna and back; `sss_register`, `sss_deregister` |
| CPU driver | `cpu/scewl_bus_driver` | one socket; position inside a call | `scewl_register`, `scewl_deregister`, `scewl_send`, `scewl_recv` |
| SED programs | `cpu/seds/echo_client`, `echo_server` | position in `main` | register, recover, exchange, deregister, exit |
| SED launch | `tools/launch_sed.sh` | two containers | start, kill the controller when the CPU ends |
| radio waves emulator | `radio/radio_waves.py` | a connection and a buffer per antenna, FAA, MitM and side-channel port | poll, route, forward through the MitM |
| FAA transceiver, MitM tool | `tools/faa.py`, `mitm.py` | one socket each | send and show; echo what comes |
| side-channel receivers | `tools/sc_receiver*.py` | two sockets, a trigger, a queue | request, record between trigger and answer, store |

How they interact: a CPU and its controller share a byte stream (a Unix socket
behind a QEMU serial port); a controller holds one connection to the SSS and one
to the emulator for its whole life.  There is no shared memory and, except in
`sc_receiver_loop.py`, one thread per process, so all interleaving is between
processes, at the system calls.  No protocol has a time-out, a retry or a
sequence number: what happens on a death or a relaunch follows from
what each side still has queued.

What is hard here, and which property is about it:

* **Deaths in the middle of a registration.**  The SSS writes its table before
  it answers, and a failed answer leaves the entry with a closed socket
  (`sss.py:71-78`, `99-103`).  `ExitCause`, `DoomedUntouched`, `DoomedExits` say
  exactly what comes of it; `StaysUp` is the documented promise it breaks.
* **Relaunches.**  Requests of a dead launch stay readable and are served after
  the next launch has been answered; the new launch may also be answered from
  the old launch's entry.  `AnswerStands`, `HolderKept`, `OneHome` hold
  regardless; `RecoveryReturns` does not.
* **Three copies of one fact.**  Whether a device is registered is known to the
  SSS, the controller and the program, one after the other:
  `RegisteredIsRecorded`, `RecordedIsRegistered`, `RegisterOkSound`,
  `DeregisterOkSound`.
* **A polling relay with blocking writes.**  `IsRelay` says nothing is lost,
  repeated, reordered or altered; `AntennaServed` and `CallsReturn` say it does
  not starve, and where it deadlocks.
* **Messages in a stream of bytes.**  Where a message starts is decided by a
  search that late bytes, long messages and noise can mislead.  `InSync`,
  `AllReturned` and `NothingMadeUp` say what it takes to mislead it.
* **An answer under way at every place at once.**  From the client's CPU to the
  server's and back a message crosses eight processes and ten buffers.
  `HelloConserved` counts it there, and `Settles` says that it arrives.
* **Two tasks and an event.**  The looping receiver samples a trigger that
  another task sets and clears.  `FreshTraces`, `OutputsShift`, `MissedOnlyLate`
  and `Collected` say which traces and outputs it stores.
* **One thread for every antenna.**  The emulator reads, buffers, forwards and
  sends for all its ports in turn, while the programs at the other ends come and
  go, or do not read.  `Consecutive`, `BufOwned` and `Heard` say that a sender's
  messages reach each receiver in order, once each and without a gap; `IsMedium`
  that each port gets what is for it in one order through hang-ups and
  relaunches; `ExitCause` says what ends the emulator.

The complete list of hazards, with those no property covers yet, is in
`PROJECT.json`.

## 2. Modules

    Scewl                 identifiers, operations, messages, launches
    Registrar             abstract: what the SSS promises
    SSS                   the server, and controllers as its environment
    SSSProofs             theorems about SSS, among them: SSS implements Registrar
    Gateway               abstract: what a controller promises
    Controller            the controller, and CPU, air and SSS as its environment
    ControllerProofs      theorems about Controller: it implements Gateway
    Driver                the CPU's bus driver (actions only)
    Program               what the SED programs share, over Driver (actions only)
    Registration          composes SSS, Controller and Program, with any messages
    RegistrationProofs    theorems about Registration, over those of its parts
    Framing               three searches for messages: controller, driver, emulator
    FramingProofs         theorems about Framing
    Medium                abstract: what the emulator promises
    RadioWaves            the emulator, and the programs at its sockets
    RadioOrder            a record of what RadioWaves sends, and its properties
    RadioWavesProofs      theorems about RadioWaves and RadioOrder: it implements
                          Medium; nothing is lost or reordered
    Selecting             the elements of a sequence that are in a set
    SelectingProofs       what that is for a sequence that grows or is used up
    EchoSystem            composes Program, Controller, Registrar and RadioWaves
    EchoSystemProofs      the theorem about EchoSystem: one hello, or one echo of it
    ScReceiverLoop        the looping side-channel receiver
    ScReceiverLoopProofs  theorems about ScReceiverLoop
    MCSSS, MCController, MCRegistration, MCRadioWaves, MCFraming, MCEchoSystem
                          instances for TLC

**Launches.**  Devices are SCEWL IDs; a *boot* is one launch of one device: one
CPU process, one controller, one connection to each server.  `IdOf` gives a
boot its device.  All per-process state is indexed by boots, so a relaunch is a
fresh boot and not a reset, and what the last launch left queued stays where it
is.  `link[b]` is `"unused"` before the launch, `"open"` while the controller
runs, `"closed"` afterwards.

**SSS.**  `sssPc` is the place in `start()`; `cur` and `got` are the locals of
`handle_transaction`; `todo` is what the current `for` has not reached, and
`oldIds` is `old_ids`.  Every accept, select, recv and send is a step, because
another process can act between any two of them; what lies between is one
step.  The order in which Python iterates a set or a dict is any order.
`handle_transaction` has three exits: `Answer` (return), `RecvEof`
(ConnectionResetError) and `AnswerBrokenPipe` (BrokenPipeError after the table
was written); `Returned` and `Raised` are what the two call sites do with them.
A request is two pieces, because `send_msg` writes header and body separately
and the server blocks in `recv` between them.  Sockets dropped from all
variables are closed by the garbage collector; the model keeps them apart from
`closed`, as only sockets in the table can be selected on again.

**Registrar.**  A table, and requests that are each served in one step: the
table is changed and the answer given.  It may drop an entry, or go down, only
because of one whose connection has ended.  SSS implements it under a mapping
that counts the pieces in the server's hands as not yet served.

**Controller.**  `ctlPc` is the place in `main`: `"outer"` (unregistered),
`"cpu"` and `"radio"` (the two polls), `"toRadio"` and `"toCpu"` (a blocking
write), `"sssHdr"`, `"sssBody"`, `"sssWait"` and `"notify"`
(`sss_register`/`sss_deregister`).  `held` is the buffer.  Channels hold at most
`Cap` messages; a write to a full one blocks.  The six `handle_*` functions
differ only in the header they write, which `WriteRadio` and `for_cpu` state.
`Stop` is the container being killed at any point.  `NotifyCpu` joins the last
write of the dialogue with the assignment of `registered`, which no other
process can see.

**Gateway.**  A queue pair that is open or closed.  Each of its steps takes one
message and delivers or discards it in the same step.  `Controller` implements
it under a mapping that counts a message the controller holds as not yet taken.

**Driver.**  A call is a place (`cpuPc`) and a result (`ret`).  `Eof` covers
the read that returns 0 once the controller is gone and the queue is empty;
`SigPipe` the write after that.  A wait of `scewl_deregister` at the end of
the stream is the place `"spin"`.

**Program.**  `app` is the purpose of the call the program made last.  Both echo
programs register, deregister and register again if that is refused, work, and
deregister; `Working` is where the work goes.

**Registration.**  The deployment as far as registration reaches: the variables
of SSS, Controller and Program, and the launch script.  A program's work is any
sequence of messages.  `phase` of SSS is read off `ctlPc`.  The properties
`SssInPlace` and `CtlInPlace` say that the whole implements the specification
of each part, environment included, so that what is checked or proved of a part
holds in the deployment.

**EchoSystem.**  The echo deployment of `getting_started.md`, with nothing left
to an environment but the launches and what the FAA is told to send.  `stage`
is the place in the work of `main`, `data` the program's buffer and `src_id`.
The emulator's `up` and `down` are the controllers' `antTx` and `antRx`: an
antenna's connection is the controller's.  The SSS is represented by Registrar,
which it implements: what is shown here holds with the server of SSS in its
place.  The FAA transceiver is started before the SEDs, as the guide has it
(steps 5 and 6), and sends when both have been launched; the SEDs are launched
in either order.  Nothing reaches a CPU after it has deregistered, so that QEMU
has no output to drop here (`Registration` has it, as `OutputDropped`).

**RadioWaves.**  The clients are launches of SEDs, runs of `faa.py` and of
`mitm.py`, probes and receivers; `PortOf` is the socket each connects to.  A
step is a call of `active`, `read_msg` or `send_msg`, which touch one client.
`pc` is the place: `"poll"` (between antennas, or sending on `msgs`), `"read"`
(`read_all_msgs`), `"mitm"`, `"forward"` and `"mitmRead"` (`MitM.forward`),
`"send"` (to the next of `hearers`), `"recvr"` (`poll_sc_sock`) and `"exited"`.
`read_msg` takes what one `recv` returns, up to `RecvMax` messages, and hands
out one; the rest stays in `buf`, and a stream's end clears it.  `sendall`
blocks while the client has `Cap` messages unread.  A payload names its message,
so that properties can speak of loss, repetition and order; a `Packet` is a
message that some client may write (`Said`).

**RadioOrder.**  Adds `heard`, the history of what each client was sent, and the
mapping to Medium: what the emulator has buffered counts as not on the air,
what it has read and not sent on as on the air.

**Medium.**  Ports with queues; a message goes to all it reaches in one step.  A
port misses one while nobody is connected, or once for each earlier connection
whose end the emulator has not noticed.

**ScReceiverLoop.**  `running` is the task that has the event loop, `ready` those
in line; tasks give it up only at an await that has to wait, and sockets and
timers are looked at in between.  A chunk of the side channel is known by the
number of traces stored when it came, a message by the request it answers.
Both ports may hang up: at the end of the stream the reading task spins.

**Framing.**  `feed` is what is written to one port, `fn` which of the three
functions reads it, `blocking` its argument, and `whole` whether a message
arrives at once or byte by byte; they are chosen at the start.  `pc` is the
place in the function; a step reads one byte, or finds none.  `HeaderMissing`,
`BodyMissing` and `SkipByte` are where `read_msg` and `scewl_recv` differ.
`deserialize` works on what has been received so far and is one step.  It knows
two magics, `SCEWL_MAGIC` and `MITM_MAGIC`; a part's `ty` is the one that the
message bears (the other two readers are sent the first only), and `raw_hdr` the
header that the emulator sends on in front of the body, none under the second.
The driver's peer hangs up having read all that the driver wrote, so that the
driver sees the end of the stream and not ECONNRESET, which `full_read` would
hand on as an error.

Payloads in the other modules are abstracted to what their bytes read as in a
`scewl_sss_msg_t`:
REG, DEREG or ALREADY, the last for every other value.

## 3. Runs

| run | instance | checks |
|---|---|---|
| `sss` | 2 devices, 3 launches (one device twice), fair | `TypeOK`, `OneHome`, `AnswerStands`, `ExitCause`, `HolderKept`, `DoomedUntouched`; `RequestAnswered`, `DeadForgotten`, `DoomedExits`; `IsRegistrar` |
| `sss_stays_up` | the same | `StaysUp`: **violated** |
| `controller` | 1 controller, Cap 1, every kind of message, fair | `TypeOK`, `IsRelay`, `AntennaServed` |
| `registration_safety` | 1 device launched twice, messages both ways | `TypeOK`, `RegisteredIsRecorded`, `RecordedIsRegistered`, `RegisterOkSound`, `DeregisterOkSound`, `SssInPlace`, `CtlInPlace` |
| `registration_liveness` | 1 device launched twice, Cap 1, messages both ways, fair | `CallsReturn` |
| `registration_recovery` | 1 device launched twice, fair | `RecoveryReturns`: **violated** |
| `registration_eof` | 1 device launched twice | `OkOnSuccess`: **violated** |
| `radiowaves_order` | 2 SEDs and MitM, 3 messages, or 6 in a batch, Cap 2, fair | `TypeOK`, `Consecutive`, `Heard` |
| `radiowaves_ports` | a SED launched twice, FAA, probe and receiver, Cap 2 | `BufOwned`, `ExitCause`, `IsMedium` |
| `framing` | 960 feeds of two messages (240 with one magic only), three readers, both modes, fair | `TypeOK`, `InSync`, `NothingMadeUp`, `AllReturned` |
| `echo` | echo client, echo server, FAA with one order, Cap 2, fair | `HelloConserved`, `Settles` |
| `sc_receiver_loop` | 3 requests, 2 chunks in the buffer, 1 stray message, fair | `TypeOK`, `FreshTraces`, `OutputsShift`, `MissedOnlyLate`, `Collected` |

*Bounds.*  Three launches are enough for a live launch, a dead launch of the
same device with a request still queued, and a third party that the server
serves in between; no property relates more than two launches of a device and
one other.  `Cap` is 1 or 2: a blocking write already blocks, and a longer
queue only delays it.  Ports hold one message of each kind the code tells apart
(command, unicast, broadcast, FAA, ours, another's).  Requests are not
bounded: the state space is finite without it.  For the emulator, two messages
per `recv` leave one in `buf` while the next arrive, which is what order
depends on; a gap takes three messages of one sender.  The sender of
`radiowaves_order` may write six, but more than three only in one batch between
clients that are there and stay (constraint `OneBatch`): six fill the man in the
middle's buffers, both ways, and his hand, and the emulator and he then wait for
each other.  In `registration_liveness` the two launches are alike, so that it
does not matter which comes first (`InTurn`), and the first sends nothing to
other SEDs (`FirstIsSilent`), since what it leaves to the second is in the SSS.
Neither constraint makes anything happen: they leave behaviours out, and fairness
is that of all of them.  Bytes of `Framing` have two bits, enough for both magics
and lengths above and below the buffer's 2; its feeds have messages under either
magic, bodies with a magic in them, lengths that read as S, and noise that can
and cannot mislead the searches: runs of S, one S before another byte, an M
before a message under MM, and MM itself.  In
`echo` the FAA has one order, to quit, which can come before, between and after
the hello and its echo; each SED is launched once.  Three requests of
`sc_receiver_loop` let a stray message shift two of them, and two chunks let the
reader fall behind by one request.  Deadlock checking is off everywhere:
servers may have exited, devices may be off, and the receiver ends.

*Fairness.*  The server's loop, each controller's loop and each program run
(weak fairness on the whole process, not on single actions): they are ordinary
processes.  A controller that has written a header goes on to write the body or
is stopped.  The launch script's trap does kill the controller in the end.  QEMU
drops output for a port nobody is connected to, and the emulator takes what a
controller sends.  In `controller` nothing is assumed of the SSS, which may
leave a request unanswered; the CPU reads what it is sent.  The emulator's
thread and `mitm.py` run; nothing makes its other clients read, as a controller
does not while its SED is not registered.  In `echo` every process runs, the SSS
serves whole requests (which `RequestAnswered` shows of SSS) and somebody
presses enter on the FAA transceiver again and again, as the guide says.  In
`sc_receiver_loop` tasks run; the event loop's looks at timers and sockets come
between two tasks, so that they are possible again and again but not all the
time, which takes strong fairness; so does a target that answers and a side
channel that goes on. Launches, deaths and messages from the air are never
forced.

*What the violations show* (traces: run TLC on the configuration):

* `StaysUp`: a device sends its first request and dies before the answer.  The
  entry is in the table, the socket is closed, and the next scan ends the
  server.
* `RecoveryReturns`: a SED is killed and launched again at once.  It gets
  ALREADY from the old entry, its connection is polled no more, and the
  recovery's `scewl_deregister` waits for ever.
* `OkOnSuccess`: the controller dies while the program waits;
  `scewl_register` returns SCEWL_OK.

*What the properties leave open.*  `CallsReturn` excepts a program and a
controller that wait for each other with both buffers full (`BothFull`), and a
controller that waits for an answer on a connection that the SSS polls no longer
(`LeftOut`, which is what `RecoveryReturns` fails by).  The run reaches both:
without either of the two exceptions it fails.  `AntennaServed` excepts a
controller that waits for ever for the SSS. `Consecutive` excepts deployments in
which a man in the middle has hung up: the emulator then sends on `msgs +
recvd_msgs`, and a message already written back is heard twice
(`radio_waves.py:186`).  It speaks of senders all or none of whose messages are
for the receiver (`AllOrNone`), as numbers say nothing of a gap that a message
to somebody else leaves.  `Heard` excepts an emulator that blocks for ever
(`Blocked`): on a client that does not read (`radio_waves.py:121`), or on a man
in the middle who waits for it to read, which a batch of 2 Cap + 2 messages
brings about (`radio_waves.py:177`).  The run reaches both.  That a SED which
never stops writing keeps the emulator at its antenna is out of the model, in
which everybody writes finitely many messages. `InSync` excepts noise with an S
before another byte, which is taken for a message (`controller.c:59`), for the
emulator noise in which either of its magics occurs, which it unpacks as a
header (`radio_waves.py:143`), and, for the controller, bodies longer than its
buffer that do not arrive at once (`controller.c:76`).  `NothingMadeUp` asks
that S is nowhere but in the magic, and of the emulator, which has no gaps, only
that its magics are not in the noise; it allows one made-up message, the empty
one that a non-blocking `scewl_recv` returns when it finds the magic and nothing
after it (`full_read` returns -1, compared as a `size_t`,
`scewl_bus_driver.c:170`); the header says SCEWL_NO_MSG for that
(`scewl_bus.h:105`).  `ExitCause` of the emulator names its two ways down: a
message of or to the FAA whose target has no socket, by the KeyError of
`socks[msg.hdr.tgt]` (`radio_waves.py:219`), and a probe that hangs up while a
receiver is connected, by the TypeError of `sendall(None)`
(`radio_waves.py:206`).  `HelloConserved` and `Settles` speak of a client that
said hello when the server's antenna was connected: a hello before that is lost,
and the client waits for ever (`echo_client/main.c:80`).  `Collected` names what
a request of the looping receiver can fail by: an answer before the reader saw
the trigger, or a port that hung up.

## 4. Proofs

`SSSProofs` proves, for any devices, any launches and any number of requests,
from `ScewlAssumption` alone:

| theorem | states |
|---|---|
| `TypeCorrect`, `OneHomeAlways`, `AnswersStand`, `ExitsForCause` | the invariants of `sss` |
| `HolderIsKept`, `DoomedIsUntouched` | its action properties |
| `SpecIInv` | the inductive invariant behind them |
| `SssIsRegistrar` | the server implements `Registrar` |

The argument.  None of the properties is inductive: whether a reply may be
trusted depends on which sockets can still carry a request.  `IInv` adds

* `Home`: `OneHome`; only one launch of a device is live (`LiveOnce`); sockets
  the server has closed belong to ended launches and have left the pool
  (`ClosedIsDead`);
* `Pieces`: what is queued and what the server has read add up to what the
  controller wrote, so a grant is outstanding only while no request is;
* `Scan`: where the server is in its loop: whom it may be serving, that an entry
  is doomed only in the scan that is still to reach it (`DoomedAhead`), and that
  entries in `oldIds` are dead (`OldIdsDead`).

`InitIInv` and `NextIInv` establish it, with one lemma for each action of the
server and each action of a client; `Left`, `LeftAnswers` and `Recording` are
shared by the three ways out of `handle_transaction`.  For the refinement,
`LookingStep` shows the steps that only look to be stutters (the pieces move
from the socket to the server, and their sum stays), `EndsService` what all
ends of a transaction have in common, and one lemma for each that it is a
`Serve`, a `ServeDead` or a `Discard`.

`ControllerProofs` proves, for any launches, any `Cap` of at least 1 and any
messages from the CPU and from the air (`ControllerAssumption`):

| theorem | states |
|---|---|
| `TypeCorrect` | every variable keeps its type, and no port is written past `Cap` |
| `ControllerIsRelay` | `IsRelay`: the controller implements `Gateway` |
| `SpecIInv` | the inductive invariant behind them |

The argument.  A relay that delivers what it took needs to know what it has in
hand.  `IInv` adds to the types `Dialogue` (the relaying places belong to a
registered controller, the dialogue to an operation), `InHandOK` (at each place
that writes, the message in hand is one that may go there) and `OneRequest` (an
answer waits only for a controller that reads it, so that `arrived` stays within
its type).  Under the mapping a message in hand is still at the head of its
queue: taking it is a stutter, writing it is the relay's step.  `NotSeen` and
`TakenUp` say what the mapping makes of the two kinds of reading step, `InFront`
and `FirstTaken` what it takes of sequences; there is one lemma for each action.

`RegistrationProofs` proves, for any SEDs, any launches of them, any size of the
buffers and any messages (`RegistrationAssumption`):

| theorem | states |
|---|---|
| `SssIsInPlace`, `ControllerIsInPlace` | `SssInPlace`, `CtlInPlace`: what is proved of SSS and Controller holds of the deployment |
| `TypeCorrect` | every variable keeps its type |
| `RelaysAreRecorded`, `RecordedRelays` | `RegisteredIsRecorded` and `RecordedIsRegistered`: controller and table agree |
| `RegisterOkIsSound`, `DeregisterOkIsSound` | what a program may conclude from its calls |

The argument.  The invariant is `Parts`, the inductive invariants of SSS and of
Controller, and `Talk(b)` for each launch b.  `Parts` is not proved again:
`StepParts` shows that each step of the deployment is a step of each part or of
its environment, so that the parts' own theorems carry it.  `Talk` is the
conversation of one program, one controller and the SSS: `Fresh` (before its
launch a SED has said nothing), `AirIsNotSss` (no message from the air can be
taken for the SSS's answer), `Agreed` (what the SSS has said to a controller,
and what its table says of it), `Conversation` (at each place of the program,
what is between it and its controller: nothing, other SEDs' messages, a
request, or its answer as the first or the last thing).  The properties compare
ends of this chain that no single step relates.  `RegistrationAssumption` asks
for two things of messages.  No program sends to the SSS but through
`scewl_register` and `scewl_deregister`, which is the driver's interface.  And
no message from the air bears the SSS's ID as its source: a controller writes
its own (`controller.c:115`, `125`, `135`), and the FAA tool the FAA's.

`ScReceiverLoopProofs` proves, for any number of requests, any size of the
stream's buffer and any number of stray messages (`LoopAssumption`):

| theorem | states |
|---|---|
| `TypeCorrect` | every variable keeps its type; no task is in line twice |
| `TracesAreFresh` | `FreshTraces` |
| `OutputsAreShiftedByStrays` | `OutputsShift` |
| `TriggerIsMissedOnlyLate` | `MissedOnlyLate` |

The argument is the order in which the event loop gives the two tasks their
turns.  `Turns` says who can be in line and with what left to do; `Fresh` that
whenever chunks from before a stored trace are in the buffer, the reader comes
before the collector; `Noticed` that a chunk that came while the collector was
waiting has found the trigger set, or the reader is first in line to see it.
`Answers` counts the answers in what is under way (`InOrder`), so that the
number of those that are stored and the number of the next one stay in step.

`RadioWavesProofs` proves, for any clients, ports, buffer sizes and programs
that come and go (`RadioAssumption`):

| theorem | states |
|---|---|
| `TypeCorrect` | every variable keeps its type, for instance a message in hand has a hearer left |
| `BuffersAreTheClients` | `BufOwned`: nothing of a client that has gone is left for its successor |
| `GoesDownForTwoReasons` | `ExitCause` |
| `EmulatorIsMedium` | `IsMedium`, without a man in the middle |
| `ConsecutiveAlways` | `Consecutive`: nothing is lost or reordered for who listens |

The argument.  `Ownership` gives every message a place where its sender's
messages may be; a port is empty when nobody is connected, which is why clearing
`buf` at the end of a stream matters.  `Connected` says who is where: nobody
waits twice or while connected (`Backlogs`), a client that has connected is
waiting or connected until it hangs up (`Lives`), and no two live clients are at
one port (`Alone`).  `Sending` says that one message at a time is sent on, to
each hearer once.  Under the mapping (`Links`, `Unnoticed`, `Unread`, `OnAir`,
`Received` in `RadioOrder`) the emulator's work on a socket is mostly
invisible: `KeepView`, `OtherPortView`, `CloseView`, `ReadView` and `SentView`
say what Medium sees of an accept, of other ports, of an end of stream, of a
read and of a write; `Quiet` and `SendOneOnAir` what is on the air between two
messages and at one.  A message read becomes Medium's in one step and is
delivered in another, whatever else is polled in between.  `OnAir` selects from
sequences: `Selecting` does that with a recursive function, and
`SelectingProofs` proves by induction (`SetInduction`, over a set of numbers,
because the library's rules take an operator) what it returns for one more
element at the end and one less at the front.  `RadioAssumption` states that
keys of a `dict` are unique, that a client is one run of one program, and that
MitM, probe and receiver have sockets of their own.  `MitmClients = {}` is the
scope of `IsMedium`: with a man in the middle the emulator is meant to alter
what is sent.  `RecordingChangesNothing` carries all this to the specification
with the history `heard`, which the runs use.

`ConsecutiveAlways` is for any clients, ports, buffer sizes and targets, men in
the middle that come among them.  Once a message has been read from its sender
it can be in eight variables, and no two of them are related by a single step.
`Line(e, c)` arranges them in the order of the way from e to c: what c is about
to be sent (`Coming`), the batch that is being routed or collected (`Through`),
what the man in the middle has written back (`Back`), has in hand (`Shown`) and
has to read (`Out`), the batch on its way to him (`Batch`), and what is unread
of e's. `Chained(e, k, L)` says that e's messages in each place run on from the
count at its end nearer to c to the next one, and `Ordered` that the counts go
from the last number that c has heard to the last that e has written.  A step
then does one of seven things to the places: nothing; a message `Passed` from
one to the next; a batch `Leapt` over an absent man in the middle; a message of
somebody else's `Strayed` in or is `Skipped`; a sender's unread messages `Ended`
with it, or have `Grown` by one.  There is one lemma for each of these about
`Chained`, and one for each action that says which it is (`ReadOneMoves`,
`MitmTakesMoves` and so on); `SendOneOrdered` is the step at which c hears, or
misses what it was not there for.  Beside it `InOrder` needs `Audience` (who has
heard anything is connected or has hung up, so that a client that connects later
starts with nothing), `Passing` (a batch is only in one place at a time) and, as
long as no man in the middle has hung up, `Idle` (one that is not connected has
done nothing, and nothing is forwarded unless one is).

`FramingProofs` proves, for any number of values of a byte, any three different
bytes in the two magics, any size of the caller's buffer and any messages and
noise (`FramingAssumption`, whose one demand is that a body's length fits the
two bytes of `len`):

| theorem | states |
|---|---|
| `TypeCorrect` | every variable keeps its type; what is put in the caller's buffer fits |
| `InSyncAlways` | `InSync`, for each of the three readers |
| `NothingIsMadeUp` | `NothingMadeUp`, for each of them |

The argument.  A reader has no record of which message it is in, so neither
property is inductive.  `Follow` says that there always is one: a number m of a
message and a string `lost` (what a writer that hung up did not get to write),
such that `Ahead`, the bytes still to be read, is what follows from the reader's
place in the m-th message (`Place`): noise in front of the next magic, the rest of
a header with `hdr` in front of it, or, in a body, what is `Left` of this message
and all the others.  What has been returned (`Returned`) is then all of the
messages before it, or, when bytes were missing, some of them in their order.
The two properties need different things of a gap, and `Left` has a clause for
each: without gaps what is left of a body is exactly what `data` and `skipped`
leave of it; with gaps the reader may have lost count, but then there is no S in
what it left behind, so that the next search runs through it.  `Stopped` is the
end of the stream in a blocking call, from which nothing more is returned,
`MadeUp` the header that `scewl_recv` never read, and `Complete` says of messages
that arrive at once that a read never finds half a message.  There is one lemma
for each action (`FindSReads` to `DeserializeReads`).  `Quiet` is inherited by
what is left of the noise (`BetweenStep`, `BetweenBeyond`), which is what keeps a
run of S from misleading the search, and `Clear`, for deserialize, by what its
scan leaves (`ClearBeyond`): no magic begins in it, not even one that ends in
the message behind it; `ScanStops` says that deserialize's scan
stops neither before nor after the next magic, and `WholeMessage` that what it
cuts out there is the message.  `FlattenSeq` is recursive: what it is for one
piece more is proved by induction over the number of pieces (`SetInduction`).

`EchoSystemProofs` proves, for any deployment with an echo client and an echo
server, any sizes of the buffers, any order of the emulator's dict and anything
the FAA is told to send (`EchoAssumption`):

| theorem | states |
|---|---|
| `SpecInv` | the inductive invariant |
| `HelloIsConserved` | `HelloConserved` |

The argument.  Between the two programs a message can be in seven places, and
`Way(b)` is the number of b's messages to the other program in all of them:
`Before` the emulator (unread of the CPU's or in the controller's hand, and
written to the antenna), `Within` it (buffered, in the batch, on the air and not
yet sent to the other's socket) and `Beyond` it.  `OneOfIt` says that `Way` of
the client, `Way` of the server and `Echoing` (the server is about to answer)
add up to one from the hello on, and to none before.  A step takes a message
from one place to the next and changes no sum: `ControllerBefore`,
`ControllerBeyond`, `TakesCounts`, `RoutesCounts`, `SendsCounts`, `Says`,
`Hears`, over the counts of `SelectingProofs`.  The exceptions are `SayHello`,
which makes it one, the server's `Recv` and `Echo`, which move it into `Echoing`
and out of it, and a send to a socket at which nobody is: that is why the sum is
kept only if the hello was said with the server's antenna connected (`met`).

None of it is true of any step from any state, so the invariant also has to say
what everybody is doing at that time.  `Device(b)` follows a SED through its
first registration: `Silent`, `Asks`, `Granted`, `Joins` (it relays, and the
answer is the first thing its CPU hears), `Talks`; from there on the controller
relays everything, and the registration fails at none of these places, because
the SSS has no older entry of the SED.  `Said(c)` and `Heard(b)` are the
messages that a client puts on the air and that a controller lets through; the
client's hello is the only one of them from one program to the other before the
echo (`WordIs`, `EchoIs`), whatever the FAA sends.  `Sockets` says that each
client is at its own port from its launch on, and `Sending` that a message in
hand has each hearer once.  All of this is over when the client has its answer or
the server leaves (`Lively`), and `OnceLively` shows that it then stays so:
`Inv` asks nothing any more, and `HelloConserved` is about the time before.
`EchoAssumption` asks that the two SEDs are two, that the emulator's dict has the
deployment's SEDs once each, and that the other sockets are not among them.

Model-checked only: all liveness (TLAPS has no ENABLED), which is
`RequestAnswered`, `DeadForgotten` and `DoomedExits` of the SSS, `AntennaServed`
of the controller, `CallsReturn` of the programs, `Heard` of the
emulator, `AllReturned` of the readers, `Collected` of the looping receiver and
`Settles` of the echo deployment.  Every other property of a passing run is also
a theorem.

## 5. Plan

1. `EchoSystem` with relaunches, once the instance can be made small enough.
2. The man in the middle in `Medium`, with what his hang-ups lose and repeat.

Not modelled, and why:

* vendored start-up code, register maps, CMSIS headers and the CMSIS DSP library
  under `controller/`: all but about 2,400 of the repository's 173,000 lines.
  None of it keeps state of the system's own, and the DSP library is not even
  linked.  The lines these modules stand for are hence a small share of all;
* build and deployment scripts, which keep no state;
* the AES example, which is compiled out and whose library is an empty submodule;
* the gdb branch of the launcher, the flag's deobfuscation and the tools'
  command lines;
* `cpu/seds/common`, helpers of SED programs that are not in the repository;
* `sc_receiver.py`, a socket copied into a file;
* malformed messages inside a man in the middle's header: `Framing` cuts them
  out like any other, but in `RadioWaves` he returns whole messages only.

## Conventions

Operators named `X_likeThis`, before `X`, are `X` with a plausible mistake.  No
specification uses them; each shows that a property notices the mistake.
