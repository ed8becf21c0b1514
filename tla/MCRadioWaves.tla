---------------------------- MODULE MCRadioWaves ----------------------------
(* Deployments for TLC: device d1 is launched as a1 and a2, d2 as b1; f1 is *)
(* the FAA transceiver, m1 a man in the middle, p1 a probe, r1 a receiver.  *)
EXTENDS RadioOrder

CONSTANTS d1, d2, a1, a2, b1, f1, m1, p1, r1

TwoDevices == <<d1, d2>>
MCIdOf == [b \in Boots |-> IF b = b1 THEN d2 ELSE d1]

ToD2 == {d2}
ToFaa == {FAA_ID}
ToBoth == {FAA_ID, d2}
ToNobody == {}
ToUnknown == {SSS_ID}    \* an ID outside START_ID..END_ID, without a socket

\* How many messages each writes.
OneEach    == [c \in Clients |-> 1]
SixOfA1     == [c \in Clients |-> IF c = a1 THEN 6 ELSE 0]
TwoThenNone == [c \in Clients |-> CASE c = a1 -> 2 [] c = a2 -> 0 [] OTHER -> 1]

\* More than three messages are written in one batch only, with everybody there:
\* enough to fill the man in the middle's buffers, both ways, and his hand.
OneBatch ==
    sent[a1] > 3 =>
        \A c \in Clients : rfLink[c] = "open" /\ (c \notin MitmClients => heard[c] = <<>>)
=============================================================================
