SPECIFICATION Spec
CONSTANTS
    MaxRounds = 2
    Addresses = 1
    Offers <- MCOffers
    Name = {a, b}
    MaxPosts = 2
    Outputs <- MCOutputs
    MaxChunk = 3
INVARIANTS
    CipherAgreed
    LegacyOnlyIfAllowed
    NothingUntold
    OutputComplete
PROPERTIES
    PostureKept
    OpeningEnds
    PostWakesWaiter
CHECK_DEADLOCK FALSE
