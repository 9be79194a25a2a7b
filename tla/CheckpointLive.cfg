CONSTANTS
    Chains = {1, 2}
    Runs = {p1}
    Tracking = {TRUE}
    HeadBatch = 2
    None = None
    Verifies = FALSE
    FaultKinds = {"error", "kill"}
    MaxEntries = 1
    MaxFaults = 1
SPECIFICATION LiveSpec
PROPERTIES
    CatchesUp
