CONSTANTS
    d1 = d1
    d2 = d2
    a1 = a1
    Devices = {d1, d2}
    Boots = {a1}
    IdOf <- MCIdOf
    Cap = 1
    CpuMsgs <- MCCpuMsgs
    AirMsgs <- MCAirMsgs
SPECIFICATION FairSpec
INVARIANT TypeOK
PROPERTIES IsRelay AntennaServed
CHECK_DEADLOCK FALSE
