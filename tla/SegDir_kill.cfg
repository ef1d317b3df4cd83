SPECIFICATION Spec
CONSTANTS
    MaxSeq = 2
    Builds = {b1, b2}
    NoFile = NoFile
    Sync = "none"
    Verify = FALSE
    Crashes = {"kill"}
    IOErrors = TRUE
    Rebuilds = FALSE
INVARIANTS TypeOK OpenNeverRefused ServedWhole ReadNeverMixed
PROPERTIES CleansUp KeepsPromise
