SPECIFICATION FairSpec
CONSTANTS
    Docs = {x, y}
    Acls = {a, b}
    Held = Held
    BatchSize = 2
    MaxClock = 2
    MaxFaults = 1
    Checkpoints = "file"
    HasFetcher = TRUE
    ReportsGone = FALSE
    Repeats = TRUE
PROPERTIES SweepIsSafe Converges
