SPECIFICATION Spec
CONSTANTS
    Data = {d1}
    Quit = q
    ReconnectData = {}
    LossFactors = {0, 1}
    ResendUnit = 1
    MaxNaks = 2
    MaxNakOffset = 0
    NakListLimit = 3
    MaxUnackDiff = 4
    MaxSend <- OneThree
    Closers = {"server"}
    MaxPackets = 1
    MaxInFlight = 2
INVARIANTS
    TypeOK
    NothingForgotten
    ResendOnlyUnacked
    NaksNameSentChunks
CHECK_DEADLOCK FALSE
