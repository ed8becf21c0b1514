------------------------------ MODULE Gateway ------------------------------
(***************************************************************************)
(* What a bus controller promises: a first-in first-out relay between the  *)
(* CPU and the antenna that is open exactly while the SSS's last word to   *)
(* this controller was a registration.  Every step of the relay takes one  *)
(* message and, in the same step, delivers it or discards it for a stated  *)
(* reason: nothing is lost, repeated, reordered or altered on the way.     *)
(***************************************************************************)
EXTENDS Scewl, Sequences

VARIABLES
    cpuTx,        \* written by the CPU, not yet taken
    cpuRx,        \* delivered to the CPU, not yet read
    antRx,        \* arrived at the antenna, not yet taken
    antTx,        \* sent through the antenna, not yet on the air
    registered,   \* is the relay open?
    asking        \* the operation the SSS is being asked for, or None

vars == <<cpuTx, cpuRx, antRx, antTx, registered, asking>>

Init ==
    /\ cpuTx = [b \in Boots |-> <<>>]
    /\ cpuRx = [b \in Boots |-> <<>>]
    /\ antRx = [b \in Boots |-> <<>>]
    /\ antTx = [b \in Boots |-> <<>>]
    /\ registered = [b \in Boots |-> FALSE]
    /\ asking = [b \in Boots |-> None]

Pop(chan, b)     == chan' = [chan EXCEPT ![b] = Tail(@)]
Push(chan, b, m) == chan' = [chan EXCEPT ![b] = Append(@, m)]

\* Messages that ask the SSS something, messages for the air, and messages
\* from the air for this device.
IsCommand(m)      == m.tgt = SSS_ID /\ m.data \in Ops
IsOutgoing(m)     == m.tgt # SSS_ID
IsForMe(b, m)     == m.tgt \in {BRDCST_ID, IdOf[b]} /\ m.src # IdOf[b]

Ready(b) == asking[b] = None

Uplink(b) ==
    /\ Ready(b) /\ registered[b]
    /\ cpuTx[b] # <<>>
    /\ LET m == Head(cpuTx[b]) IN
       /\ IsOutgoing(m)
       /\ Push(antTx, b, packet(m.tgt, IdOf[b], m.data))
    /\ Pop(cpuTx, b)
    /\ UNCHANGED <<cpuRx, antRx, registered, asking>>

Downlink(b) ==
    /\ Ready(b) /\ registered[b]
    /\ antRx[b] # <<>>
    /\ IsForMe(b, Head(antRx[b]))
    /\ Push(cpuRx, b, Head(antRx[b]))
    /\ Pop(antRx, b)
    /\ UNCHANGED <<cpuTx, antTx, registered, asking>>

\* Overheard: for another device, or this device's own transmission.
Overhear(b) ==
    /\ Ready(b) /\ registered[b]
    /\ antRx[b] # <<>>
    /\ ~IsForMe(b, Head(antRx[b]))
    /\ Pop(antRx, b)
    /\ UNCHANGED <<cpuTx, cpuRx, antTx, registered, asking>>

\* Before registration what the CPU sends is discarded; what the antenna
\* receives waits.  A message for the SSS that asks nothing is discarded.
Reject(b) ==
    /\ Ready(b)
    /\ cpuTx[b] # <<>>
    /\ LET m == Head(cpuTx[b]) IN
       ~IsCommand(m) /\ (registered[b] => ~IsOutgoing(m))
    /\ Pop(cpuTx, b)
    /\ UNCHANGED <<cpuRx, antRx, antTx, registered, asking>>

Ask(b) ==
    /\ Ready(b)
    /\ cpuTx[b] # <<>>
    /\ IsCommand(Head(cpuTx[b]))
    /\ asking' = [asking EXCEPT ![b] = Head(cpuTx[b]).data]
    /\ Pop(cpuTx, b)
    /\ UNCHANGED <<cpuRx, antRx, antTx, registered>>

\* The SSS's answer is passed on, and opens or closes the relay when it
\* grants what was asked.
Told(b, answer) ==
    /\ asking[b] # None
    /\ Push(cpuRx, b, packet(IdOf[b], SSS_ID, answer))
    /\ registered' = [registered EXCEPT ![b] =
                        IF answer = asking[b] THEN answer = REG ELSE @]
    /\ asking' = [asking EXCEPT ![b] = None]
    /\ UNCHANGED <<cpuTx, antRx, antTx>>

\* The controller is stopped: what it had not taken is lost.
Cut(b) ==
    /\ registered' = [registered EXCEPT ![b] = FALSE]
    /\ asking' = [asking EXCEPT ![b] = None]
    /\ cpuTx' = [cpuTx EXCEPT ![b] = <<>>]
    /\ antRx' = [antRx EXCEPT ![b] = <<>>]
    /\ UNCHANGED <<cpuRx, antTx>>

\* The CPU and the radio at the outer ends.
CpuWrites(b, m) == Push(cpuTx, b, m) /\ UNCHANGED <<cpuRx, antRx, antTx, registered, asking>>
AirBrings(b, m) == Push(antRx, b, m) /\ UNCHANGED <<cpuTx, cpuRx, antTx, registered, asking>>
CpuReads(b) ==
    cpuRx[b] # <<>> /\ Pop(cpuRx, b) /\ UNCHANGED <<cpuTx, antRx, antTx, registered, asking>>
AirTakes(b) ==
    antTx[b] # <<>> /\ Pop(antTx, b) /\ UNCHANGED <<cpuTx, cpuRx, antRx, registered, asking>>

Next ==
    \E b \in Boots :
        \/ Uplink(b) \/ Downlink(b) \/ Overhear(b) \/ Reject(b) \/ Ask(b) \/ Cut(b)
        \/ \E answer \in Data : Told(b, answer)
        \/ \E m \in Msg : CpuWrites(b, m) \/ AirBrings(b, m)
        \/ CpuReads(b) \/ AirTakes(b)

Spec == Init /\ [][Next]_vars
=============================================================================
