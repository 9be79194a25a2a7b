CONSTANTS
    p1 = p1
    p2 = p2
    None = None
    Procs <- MCProcs
    McpIds = {11, 12, 13}
    Targets = {11, 12}
    OtherIds = {31}
    Elsewhere <- MCElsewhere
    Calls <- MCCalls
    Inputs <- MCInputs
    commitBatch = 2
    maxCommitEntries = 1
    maxDB = 1
    MaxSeq = 2
    Landed = FALSE
    MaxFaults = 2
SPECIFICATION LocalSpec
SYMMETRY Symmetry
INVARIANTS
    NoncesStand
    ForgottenGone
    DatabaseSound
    AnswerTrue
