\* Three requests, up to two chunks between two reads, one message of another SED.
CONSTANTS
    ntraces = 3
    Backlog = 2
    MaxForeign = 1

SPECIFICATION FairSpec

INVARIANTS
    TypeOK
    FreshTraces
    OutputsShift
    MissedOnlyLate
PROPERTIES
    Collected

\* The program ends.
CHECK_DEADLOCK FALSE
