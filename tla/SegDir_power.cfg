SPECIFICATION Spec
CONSTANTS
    MaxSeq = 3
    Builds = {b1, b2}
    NoFile = NoFile
    Sync = "full"
    Verify = FALSE
    Crashes = {"power"}
    IOErrors = FALSE
    Rebuilds = TRUE
INVARIANTS Recovers
PROPERTIES KeepsPromise
