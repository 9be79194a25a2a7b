CONSTANTS
    Chains = {1}
    Runs = {p1}
    Tracking = {TRUE}
    HeadBatch = 2
    None = None
    Verifies = FALSE
    FaultKinds = {"clock"}
    MaxEntries = 2
    MaxFaults = 1
SPECIFICATION Spec
INVARIANTS
    SignedVerifies
