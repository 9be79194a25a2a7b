CONSTANTS
    alice = alice
    bob = bob
    k1 = k1
    k2 = k2
    x = x
    y = y
    s1 = s1
    None = None
    Pending = Pending
    Subjects = {alice, bob}
    Classes = {k1}
    Chains = {c1, c2}
    Texts = {x, y}
    Sources = {s1}
    LandedErrors = {"evidence", "subjects", "sources", "sigs"}
    SignerConfigs = {FALSE}
    Batches <- TwoSubjects
    MaxId = 3
    MaxFaults = 2
    Restores = FALSE
SPECIFICATION Spec
INVARIANTS
    TypeOK
    ReachableByErasure
    GoneIsGone
    IndexConsistent
