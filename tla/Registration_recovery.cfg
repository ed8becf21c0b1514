CONSTANTS
    d1 = d1
    d2 = d2
    a1 = a1
    a2 = a2
    Devices <- OneDevice
    Boots <- MCTwice
    IdOf <- MCIdOf
    Cap = 1
    SedMsgs <- NoMsgs
    AirMsgs <- NoMsgs
SPECIFICATION FairSpec
PROPERTY RecoveryReturns
CHECK_DEADLOCK FALSE
