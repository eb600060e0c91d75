SPECIFICATION Spec
CONSTANTS
    Data = {d1}
    Quit = q
    ReconnectData = {}
    LossFactors = {0}
    ResendUnit = 1
    MaxNaks = 2
    MaxNakOffset = 1
    NakListLimit = 2
    MaxUnackDiff = 4
    MaxSend <- OneFour
    Closers = {}
    MaxPackets = 1
    MaxInFlight = 2
INVARIANTS
    NakAssertion
CHECK_DEADLOCK FALSE
