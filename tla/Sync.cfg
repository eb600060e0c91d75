SPECIFICATION Spec
CONSTANTS
    NumPlayers = 2
    Locals = {0, 1}
    Checksums <- MCChecksums
    Correct = 0
    SyncCheckTimeout = 1
    MsgTimeout = 1
    KeyframeInterval = 2
    GameSpeed = 1
    SimRates <- MCRates
    MaxNewFrames = 2
    MaxFrame = 2
    MaxInFlight = 2
    MaxJoins = 1
    MaxDiverged = 1
INVARIANTS TypeOK MemoryBounded InOrderNeverBlamed AccusedRightly
PROPERTIES DesyncNoticed DivergenceFound
