------------------------------ MODULE Program -------------------------------
(***************************************************************************)
(* What the programs of cpu/seds/echo_client/main.c and                    *)
(* cpu/seds/echo_server/main.c have in common: register, recover once if   *)
(* that is refused, work, deregister, exit.  Every call is one of the      *)
(* driver's.  What the program's work is, is left to the module that       *)
(* composes: anything at all in Registration, the echo in EchoSystem.      *)
(***************************************************************************)
EXTENDS Driver

VARIABLE app   \* the call that the program made last, by its purpose

Purposes == {"boot", "first", "recover", "again", "work", "leave"}

ProgramInit == Init /\ app = [b \in Boots |-> "boot"]

-----------------------------------------------------------------------------

At(b, place) == cpuPc[b] = "idle" /\ app[b] = place
Move(b, place) == app' = [app EXCEPT ![b] = place]

\* The program goes on to its messages once a registration has succeeded.
Working(b) ==
    \/ At(b, "work")
    \/ cpuPc[b] = "idle" /\ app[b] \in {"first", "again"} /\ ret[b] = "OK"

FirstRegister(b) == At(b, "boot") /\ CallRegister(b) /\ Move(b, "first")

\* "BAD REGISTRATION! Reregistering..."
Recover(b) ==
    At(b, "first") /\ ret[b] # "OK" /\ CallDeregister(b) /\ Move(b, "recover")
RegisterAgain(b) ==
    At(b, "recover") /\ ret[b] = "OK" /\ CallRegister(b) /\ Move(b, "again")

Leave(b) == Working(b) /\ CallDeregister(b) /\ Move(b, "leave")

Ends(b) == Goto(b, "dead") /\ UNCHANGED <<app, link, cpuTx, cpuRx>>

\* main returns.
Exit(b) ==
    /\ \/ At(b, "leave")
       \/ At(b, "recover") /\ ret[b] # "OK"
       \/ At(b, "again") /\ ret[b] # "OK"
    /\ Ends(b)

\* The program is killed or crashes, at any point.
CpuDies(b) == cpuPc[b] \notin {"off", "dead"} /\ Ends(b)

Frame(b) == FirstRegister(b) \/ Recover(b) \/ RegisterAgain(b) \/ Exit(b)

\* A call that the program made goes on.
InCall(b) == Step(b) /\ UNCHANGED app
=============================================================================
