SPECIFICATION Spec
CONSTANTS
    Data = {d1, d2}
    Quit = d2
    ReconnectData = {d2}
    LossFactors = {0}
    ResendUnit = 1
    MaxNaks = 2
    MaxNakOffset = 1
    NakListLimit = 1
    MaxUnackDiff = 4
    MaxSend <- TwoTwo
    Closers = {}
    MaxPackets = 1
    MaxInFlight = 2
INVARIANTS
    InOrderExactlyOnce
    DiscardsLoseOnlyQuit
PROPERTIES
    ImplementsStream
CHECK_DEADLOCK FALSE
