CONSTANTS
    d1 = d1
    d2 = d2
    a1 = a1
    a2 = a2
    b1 = b1
    Devices <- MCDevices
    Boots <- MCBoots
    IdOf <- MCIdOf
SPECIFICATION Spec
INVARIANT StaysUp
CHECK_DEADLOCK FALSE
