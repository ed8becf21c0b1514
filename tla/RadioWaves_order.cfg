CONSTANTS
    d1 = d1
    d2 = d2
    a1 = a1
    a2 = a2
    b1 = b1
    f1 = f1
    m1 = m1
    p1 = p1
    r1 = r1
    Devices = {d1, d2}
    DevOrder <- TwoDevices
    IdOf <- MCIdOf
    Boots = {a1, b1}
    FaaClients = {}
    MitmClients = {m1}
    ProbeClients = {}
    RecvrClients = {}
    SedTargets <- ToD2
    FaaTargets <- ToNobody
    Cap = 2
    RecvMax = 2
    MaxSent <- SixOfA1
SPECIFICATION HFairSpec
PROPERTY Heard
INVARIANTS TypeOK Consecutive
CONSTRAINT OneBatch
CHECK_DEADLOCK FALSE
