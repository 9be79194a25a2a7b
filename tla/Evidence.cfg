CONSTANTS
    MaxEntries = 2
    MaxAlter = 2
    MaxLeaves = 5
    MaxProofEdits = 2
    MaxSwaps = 2
SPECIFICATION HandedSpec
INVARIANTS
    AcceptedIsAuthors
    HonestAccepted
    VerifiersAgree
    ReaderExact
    TreesSound
    DirectoryRead
\* A hand-over ends when its verifier has answered and no alteration is left.
CHECK_DEADLOCK FALSE
