SPECIFICATION Spec
CONSTANTS
    host = host
    guest = guest
    watcher = watcher
    Names = {host, guest, watcher}
    Host = host
    Anonymous = Anonymous
    Script <- MCHosted
    MaxLinks = 3
    MaxHistory = 5
    MaxChatter = 2
INVARIANT
    EveryStreamComplete
CHECK_DEADLOCK FALSE
