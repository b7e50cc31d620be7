CONSTANTS
    MaxMsgs = 2
    Contents <- MCContents
    Handlers = {h1}
    Slots = {1, 2}
    Own = 1
    Limit = 1
    Day = 1
    MaxTime = 1
    MaxTroubles = 0
    Absent = Absent
    None = None

SPECIFICATION Spec
CHECK_DEADLOCK FALSE

INVARIANT BacklogIsHandedOver
