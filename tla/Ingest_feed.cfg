SPECIFICATION Spec
CONSTANTS
    Docs = {x, y}
    Acls = {a, b}
    Held = Held
    BatchSize = 2
    MaxClock = 3
    MaxFaults = 2
    Checkpoints = "file"
    HasFetcher = TRUE
    ReportsGone = TRUE
    Repeats = FALSE
INVARIANTS TypeOK CheckpointCovers
SYMMETRY AnyDoc
