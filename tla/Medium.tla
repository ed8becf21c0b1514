------------------------------- MODULE Medium -------------------------------
(***************************************************************************)
(* What the radio waves emulator promises to the SEDs and the FAA while no *)
(* man in the middle is there: each port is sent, in one order and once,   *)
(* the messages that are for it, and misses one only while nobody is       *)
(* connected to it - or once for each earlier connection of this port      *)
(* whose end the emulator has not noticed.                                 *)
(***************************************************************************)
EXTENDS Scewl, Sequences, SequencesExt

CONSTANT FaaClients    \* runs of the FAA transceiver

Radios == Boots \cup FaaClients
Ports  == Devices \cup {FAA_ID}
PortOf(c) == IF c \in Boots THEN IdOf[c] ELSE FAA_ID

VARIABLES
    link,      \* a radio's connection: "unused", "open" or "closed" by it
    stale,     \* closed connections whose end has not been noticed
    up,        \* written by a radio, not yet on the air
    transit,   \* on the air, to each port
    down       \* received, not yet read by the radio

vars == <<link, stale, up, transit, down>>

Init ==
    /\ link = [c \in Radios |-> "unused"]
    /\ stale = {}
    /\ up = [c \in Radios |-> <<>>]
    /\ transit = [p \in Ports |-> <<>>]
    /\ down = [c \in Radios |-> <<>>]

\* To and from the FAA directly, all else to every SED; to an ID that is not
\* deployed, nowhere.
Reach(m) ==
    IF FAA_ID \in {m.src, m.tgt} /\ m.tgt # BRDCST_ID
    THEN {m.tgt} \cap Ports
    ELSE Devices

Open(c) == link[c] = "open"
Holder(p) == {c \in Radios : Open(c) /\ PortOf(c) = p}

\* One order for everybody: the message goes to all it reaches in one step.
Transmit(c) ==
    /\ Open(c) \/ c \in stale
    /\ up[c] # <<>>
    /\ up' = [up EXCEPT ![c] = Tail(@)]
    /\ transit' = [p \in Ports |-> IF p \in Reach(Head(up[c]))
                                   THEN Append(transit[p], Head(up[c]))
                                   ELSE transit[p]]
    /\ UNCHANGED <<link, stale, down>>

Arrives(p) ==
    /\ transit[p] # <<>>
    /\ transit' = [transit EXCEPT ![p] = Tail(@)]

Deliver(c) ==
    /\ Open(c)
    /\ Arrives(PortOf(c))
    /\ down' = [down EXCEPT ![c] = Append(@, Head(transit[PortOf(c)]))]
    /\ UNCHANGED <<link, stale, up>>

\* The end of a connection is noticed: what it had not got on the air is lost.
Forget(c) ==
    /\ c \in stale
    /\ stale' = stale \ {c}
    /\ up' = [up EXCEPT ![c] = <<>>]
    /\ UNCHANGED <<link, down>>

Notice(c) == Forget(c) /\ UNCHANGED transit

Miss(p) ==
    /\ Arrives(p)
    /\ \/ \E c \in stale : PortOf(c) = p /\ Forget(c)
       \/ Holder(p) = {} /\ UNCHANGED <<link, stale, up, down>>

\* The radios.
Connect(c) ==
    /\ link[c] = "unused" /\ Holder(PortOf(c)) = {}
    /\ link' = [link EXCEPT ![c] = "open"]
    /\ UNCHANGED <<stale, up, transit, down>>

Write(c) ==
    /\ Open(c)
    /\ up'[c] # <<>> /\ Front(up'[c]) = up[c]
    /\ up' = [up EXCEPT ![c] = up'[c]]
    /\ UNCHANGED <<link, stale, transit, down>>

Read(c) ==
    /\ Open(c)
    /\ down[c] # <<>>
    /\ down' = [down EXCEPT ![c] = Tail(@)]
    /\ UNCHANGED <<link, stale, up, transit>>

HangUp(c) ==
    /\ Open(c)
    /\ link' = [link EXCEPT ![c] = "closed"]
    /\ stale' = stale \cup {c}
    /\ down' = [down EXCEPT ![c] = <<>>]
    /\ UNCHANGED <<up, transit>>

Next ==
    \/ \E c \in Radios :
          \/ Transmit(c) \/ Deliver(c) \/ Notice(c)
          \/ Connect(c) \/ Write(c) \/ Read(c) \/ HangUp(c)
    \/ \E p \in Ports : Miss(p)

Spec == Init /\ [][Next]_vars
=============================================================================
