CONSTANTS
    MaxMsgs = 3
    Contents <- MCContents
    Handlers = {h1, h2}
    Slots = {1, 2}
    Own = 1
    Limit = 1
    Day = 1
    MaxTime = 2
    MaxTroubles = 1
    Absent = Absent
    None = None

SPECIFICATION FairSpec
CONSTRAINT Followed
CHECK_DEADLOCK FALSE

INVARIANT EachAnsweredOnce
INVARIANT HeardWhereItStands
INVARIANT SilenceMeansHandoff
INVARIANT BookedAsTold
PROPERTY AwaitingIsNoticed
