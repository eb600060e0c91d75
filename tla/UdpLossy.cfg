SPECIFICATION FairSpec
CONSTANTS
    Data = {d1}
    Quit = q
    ReconnectData = {}
    LossFactors = {0, 2}
    ResendUnit = 1
    MaxNaks = 1
    MaxNakOffset = 1
    NakListLimit = 2
    MaxUnackDiff = 4
    MaxSend <- OneThree
    Closers = {}
    MaxPackets = 1
    MaxInFlight = 1
PROPERTIES
    EventuallyConnected
    EventuallyDelivered
    EventuallyAcknowledged
CHECK_DEADLOCK FALSE
