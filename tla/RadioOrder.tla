----------------------------- MODULE RadioOrder -----------------------------
(***************************************************************************)
(* What the radio waves emulator does to the messages of one sender on     *)
(* their way to one receiver.  RadioWaves forgets a message once it has    *)
(* been read, so this module keeps a record of what each client was sent.  *)
(***************************************************************************)
EXTENDS RadioWaves, Selecting

VARIABLE heard      \* everything the emulator has written to each client

Written(c) == Len(down'[c]) > Len(down[c])

HInit == Init /\ heard = [c \in Clients |-> <<>>]
HNext ==
    /\ Next
    /\ heard' = [c \in Clients |->
                    IF Written(c) THEN Append(heard[c], down'[c][Len(down'[c])])
                    ELSE heard[c]]

HSpec == HInit /\ [][HNext]_<<vars, heard>>
HFairSpec == HSpec /\ Fairness

-----------------------------------------------------------------------------

Listeners == Boots \cup FaaClients
Senders   == Boots \cup FaaClients

\* A client's messages, and the messages that are sent to port p, where it is
\* one of the emulator's.
Own(c) == {m \in Packet : m.data[1] = c}
For(p) == {m \in Packet : p \in IF direct(m) THEN {m.tgt} ELSE Devices}

\* The numbers of e's messages among those c has heard, in the order of arrival.
HeardFrom(e, c) ==
    LET fromE == Select(heard[c], Own(e)) IN [i \in DOMAIN fromE |-> fromE[i].data[2]]

\* All of e's messages are for c, or none is.
AllOrNone(e, c) == Own(e) \subseteq For(PortOf(c)) \/ Own(e) \cap For(PortOf(c)) = {}

\* While no man in the middle has hung up, a receiver hears the messages of a
\* sender in the order they were written, each once, and without a gap: only
\* those from before it connected and from after either hung up are missing.
Consecutive ==
    (\A m \in MitmClients : rfLink[m] # "closed") =>
        \A e \in Senders, c \in Listeners : AllOrNone(e, c) =>
            \A i \in 1..(Len(HeardFrom(e, c)) - 1) :
                HeardFrom(e, c)[i + 1] = HeardFrom(e, c)[i] + 1

\* What is in a port's buffer was written by the client that is connected to
\* it: the bytes of a client that hung up are never taken for the next one's.
BufOwned ==
    \A p \in socks : \A i \in DOMAIN buf[p] : csock[p] = buf[p][i].data[1]

\* The emulator goes down for two reasons only: a message between the FAA and
\* an ID it has no socket for, and a probe that hangs up under a receiver.
ExitCause ==
    pc = "exited" =>
        \/ direct(msg) /\ msg.tgt \notin socks
        \/ \E c \in ProbeClients : rfLink[c] = "closed"

\* The emulator as a medium.  A connection that has ended is stale while the
\* emulator still holds it or has yet to accept it, and what it has buffered
\* counts as not on the air.  What was read and not sent on is on the air.
Radios == Boots \cup FaaClients
Held(c) == csock[PortOf(c)] = c \/ \E i \in DOMAIN waiting[PortOf(c)] : waiting[PortOf(c)][i] = c

Links     == [c \in Radios |-> rfLink[c]]
Unnoticed == {c \in Radios : rfLink[c] = "closed" /\ Held(c)}
Unread    == [c \in Radios |->
                 CASE csock[PortOf(c)] = c              -> buf[PortOf(c)] \o up[c]
                   [] csock[PortOf(c)] # c /\ Held(c)   -> up[c]
                   [] OTHER                             -> <<>>]
OnAir     == [p \in socks |->
                 (IF \E i \in DOMAIN hearers : hearers[i] = p THEN <<msg>> ELSE <<>>)
                     \o Select(msgs, For(p))]
Received  == [c \in Radios |-> down[c]]

Air == INSTANCE Medium WITH
    link <- Links, stale <- Unnoticed, up <- Unread, transit <- OnAir, down <- Received

\* While no man in the middle is there the emulator is a medium: whatever the
\* order of polls, hang-ups and connections, each port gets the messages for it
\* in one order, and none is lost that an open and noticed client could hear.
IsMedium == Air!Spec

\* The emulator is in a sendall to a client that has Cap messages unread.
Blocked ==
    \E p \in Ports :
        /\ active(p) /\ rfLink[conn(p)] = "open" /\ Len(down[conn(p)]) = Cap
        /\ \/ pc = "send" /\ p = Head(hearers)
           \/ pc = "forward" /\ p = MITM
           \/ pc = "recvr" /\ p = RECVR /\ sc = "data"

\* A message that is on its way reaches everyone it is for who is next on the
\* port by then and keeps listening, unless its sender or a man in the middle
\* hangs up or the emulator is gone - or comes to block for ever, on a client
\* that does not read or a man in the middle who waits for it to read.
Underway(e, n, c) ==
    /\ \E i \in DOMAIN up[e] : up[e][i].data = <<e, n>> /\ up[e][i] \in For(PortOf(c))
    /\ conn(PortOf(c)) = c /\ rfLink[c] = "open"
Heard ==
    \/ <>[]Blocked
    \/ \A e \in Senders, c \in Listeners : \A n \in 1..MaxSent[e] :
          Underway(e, n, c)
            ~> \/ \E i \in DOMAIN heard[c] : heard[c][i].data = <<e, n>>
               \/ \E x \in {e, c} \cup MitmClients : rfLink[x] = "closed"
               \/ pc = "exited"
=============================================================================
