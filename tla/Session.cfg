SPECIFICATION Spec
CONSTANTS
    host = host
    guest = guest
    watcher = watcher
    Names = {host, guest, watcher}
    Host = host
    Anonymous = Anonymous
    Script <- MCHosted
    MaxLinks = 2
    MaxHistory = 5
    MaxChatter = 2
INVARIANTS
    TypeOK
    StreamComplete
    LoopbackIffConnected
    HistoryTellsWhoIsIn
    IntroducedFirst
PROPERTIES
    ImplementsJoinedLog
    LostClientsRemoved
CHECK_DEADLOCK FALSE
