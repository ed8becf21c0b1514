CONSTANTS
    d1 = d1
    d2 = d2
    a1 = a1
    b1 = b1
    f1 = f1
    Devices = {d1, d2}
    DevOrder <- TwoDevices
    IdOf <- MCIdOf
    Boots = {a1, b1}
    EchoClient = a1
    EchoServer = b1
    Faa = f1
    Cap = 2
    RecvMax = 2
    Orders <- QuitServer
SPECIFICATION FairSpec
INVARIANT HelloConserved
PROPERTY Settles
CHECK_DEADLOCK FALSE
