CONSTANTS
    d1 = d1
    d2 = d2
    a1 = a1
    a2 = a2
    Devices <- TwoDevices
    Boots <- MCTwice
    IdOf <- MCIdOf
    Cap = 1
    SedMsgs <- ToPeer
    AirMsgs <- Broadcast
SPECIFICATION FairSpec
PROPERTY CallsReturn
CONSTRAINTS InTurn FirstIsSilent
CHECK_DEADLOCK FALSE
