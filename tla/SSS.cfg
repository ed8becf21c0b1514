CONSTANTS
    d1 = d1
    d2 = d2
    a1 = a1
    a2 = a2
    b1 = b1
    Devices <- MCDevices
    Boots <- MCBoots
    IdOf <- MCIdOf
SPECIFICATION FairSpec
INVARIANTS TypeOK OneHome AnswerStands ExitCause
PROPERTIES HolderKept DoomedUntouched RequestAnswered DeadForgotten DoomedExits IsRegistrar
CHECK_DEADLOCK FALSE
