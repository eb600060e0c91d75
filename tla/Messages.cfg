SPECIFICATION Spec
CONSTANTS
    Types <- MCTypes
    MaxChunkSize = 4
    MaxSend = 3
    MaxBandwidth = 3
CHECK_DEADLOCK FALSE
INVARIANTS TypeOK FramesFound PingsCounted PingsSkipQueue
PROPERTIES ImplementsStream EverythingTaken
