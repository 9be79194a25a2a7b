CONSTANTS
    Chains = {1}
    Runs = {p1}
    Tracking = {TRUE, FALSE}
    HeadBatch = 1
    None = None
    Verifies = FALSE
    FaultKinds = {"error", "kill", "power", "restore", "clock"}
    MaxEntries = 3
    MaxFaults = 2
SPECIFICATION Spec
INVARIANTS
    ErasureConfirmed
PROPERTIES
    HeadsExtend
