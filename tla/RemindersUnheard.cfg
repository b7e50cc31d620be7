CONSTANTS
    Appts = {a1}
    Windows = {DAY, RISK}
    Extra = RISK
    Lead <- MCLead
    AfterDelay = 1
    Handlers = {h1, h2}
    MaxTime = 3
    MaxAttempts = 2
    MaxEdits = 3
    MaxFailures = 2
    Emitters = {FALSE}
    Absent = Absent
    Deleted = Deleted
    None = None

SPECIFICATION Spec
CHECK_DEADLOCK FALSE

INVARIANT RemindersAreQueued
