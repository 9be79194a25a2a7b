CONSTANTS
    Chains = {c1, c2}
    Writers = {w1, w2}
    None = None
    Landed = TRUE
    MaxFaults = 1
    MaxCalls = 2
    Batches <- Two
    Callers = {g1, g2}
    Keepers = {g1}
    Nobody = Nobody
    Lost = Lost
    MaxPanics = 2
SPECIFICATION BoltSpec
INVARIANTS
    LinkerInv
    CallsStand
    LostNotAwaited
    ReleasedQuiet
PROPERTIES
    HeadsAdvance
    AppendOnly
    LeaseFreed
    CallsReturn
