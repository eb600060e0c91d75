--------------------------- MODULE MCMessageStream ---------------------------
EXTENDS MessageStream

\* bad says that it is longer than it is, none that it is shorter than its own head.
MCTypes ==
    [ping     |-> [head |-> 1, says |-> 2, bytes |-> 2],
     progress |-> [head |-> 1, says |-> 1, bytes |-> 1],
     short    |-> [head |-> 2, says |-> 3, bytes |-> 3],
     long     |-> [head |-> 3, says |-> 7, bytes |-> 7],
     bad      |-> [head |-> 2, says |-> 4, bytes |-> 2],
     none     |-> [head |-> 3, says |-> 1, bytes |-> 3]]
=============================================================================
