CONSTANTS
    Messages = {m1, m2}
    Numbers = {n1, n2}
    Attempts = 3
    MaxFaults = 3
    None = None

SPECIFICATION FairSpec
CHECK_DEADLOCK FALSE

INVARIANT ArrivesOnce
INVARIANT ArrivesInOrder
PROPERTY Settles
