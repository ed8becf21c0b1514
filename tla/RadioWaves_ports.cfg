CONSTANTS
    d1 = d1
    d2 = d2
    a1 = a1
    a2 = a2
    b1 = b1
    f1 = f1
    m1 = m1
    p1 = p1
    r1 = r1
    Devices = {d1, d2}
    DevOrder <- TwoDevices
    IdOf <- MCIdOf
    Boots = {a1, a2}
    FaaClients = {f1}
    MitmClients = {}
    ProbeClients = {p1}
    RecvrClients = {r1}
    SedTargets <- ToBoth
    FaaTargets <- ToUnknown
    Cap = 2
    RecvMax = 2
    MaxSent <- TwoThenNone
SPECIFICATION HSpec
INVARIANTS BufOwned ExitCause
PROPERTY IsMedium
CHECK_DEADLOCK FALSE
