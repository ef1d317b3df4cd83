SPECIFICATION FairSpec
CONSTANTS
    Files = {1, 2}
    InDir = {2}
    Rule = Rule
    Dir = Dir
    None = None
    MaxPending = 1
    MaxQueue = 1
    MaxTime = 3
    MaxEdits = 3
    MaxFails = 1
    Faults = {}
INVARIANTS CursorHonest NothingForgotten
PROPERTIES IndexFollows
CHECK_DEADLOCK FALSE
