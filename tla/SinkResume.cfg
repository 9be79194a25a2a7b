CONSTANTS
    alice = alice
    bob = bob
    k1 = k1
    k2 = k2
    x = x
    y = y
    s1 = s1
    None = None
    Pending = Pending
    Subjects = {alice, bob}
    Classes = {k1}
    Chains = {c1, c2}
    Texts = {x}
    Sources = {s1}
    LandedErrors = {"evidence"}
    SignerConfigs = {FALSE, TRUE}
    Batches <- PlainBatches
    MaxId = 2
    MaxFaults = 2
    Restores = FALSE
SPECIFICATION LiveSpec
INVARIANTS
    NothingNewBehind
PROPERTIES
    PendingClears
