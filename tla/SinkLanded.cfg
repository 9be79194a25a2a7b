CONSTANTS
    alice = alice
    bob = bob
    k1 = k1
    k2 = k2
    x = x
    y = y
    s1 = s1
    None = None
    Pending = Pending
    Subjects = {alice}
    Classes = {k1, k2}
    Chains = {c1, c2}
    Texts = {x, y}
    Sources = {s1}
    LandedErrors = {"evidence", "subjects", "secrets", "sources", "sigs"}
    SignerConfigs = {TRUE, FALSE}
    Batches <- TwoClasses
    MaxId = 3
    MaxFaults = 2
    Restores = TRUE
SPECIFICATION Spec
INVARIANTS
    ErasureEnds
    CommittedOpens
    CommitsStand
