CONSTANTS
    Chains = {1}
    Runs = {p1, p2}
    Tracking = {TRUE}
    HeadBatch = 2
    None = None
    Verifies = TRUE
    FaultKinds = {"kill"}
    MaxEntries = 1
    MaxFaults = 1
SPECIFICATION Spec
SYMMETRY Symmetry
INVARIANTS
    SeriesInv
PROPERTIES
    CheckpointsKept
