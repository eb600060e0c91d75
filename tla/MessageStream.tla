---------------------------- MODULE MessageStream ----------------------------
(***************************************************************************)
(* Messages on a connection from the server to a client, and how the       *)
(* client reads them.                                                      *)
(*                                                                         *)
(* A UDPConnection (rts/System/Net/UDPConnection.cpp) joins messages to    *)
(* chunks of limited size and cuts those that do not fit; the receiver     *)
(* puts the bytes together again and finds the ends of messages with       *)
(* ProtocolDef. Between them is the FIFO stream of chunks that             *)
(* UdpConnection implements. A CLocalConnection hands messages over in a   *)
(* queue that both threads use. ClientReadNet (rts/Net/NetCommands.cpp)    *)
(* takes messages in order, but first looks through the whole queue for    *)
(* those that need not wait: pings, and reports of the game's progress.    *)
(***************************************************************************)
EXTENDS Integers, Sequences, FiniteSets, SequencesExt

CONSTANTS
    Types,         \* of messages: how many bytes it takes to know the length, what length
                   \* they say, and how many bytes there are
    MaxChunkSize,
    MaxSend,       \* bound on messages
    MaxBandwidth   \* bound on what a flush may send below the bandwidth limit

ASSUME MessageAssumption ==
    /\ \A t \in DOMAIN Types : Types[t].head \in 1..3 /\ Types[t].bytes \in Nat \ {0}
                               /\ Types[t].says \in Nat
    /\ MaxChunkSize \in Nat \ {0} /\ MaxSend \in Nat /\ MaxBandwidth \in Nat

VARIABLES
    local,         \* the client's connection is a CLocalConnection
    outgoingData,  \* messages, as bytes
    chunks,        \* made and not yet received
    fragmentBuffer,
    msgQueue, numPings,
    reading,       \* the client is in ClientReadNet
    sent, taken    \* what the server has sent; what the client has processed in order

vars == <<local, outgoingData, chunks, fragmentBuffer, msgQueue, numPings, reading, sent, taken>>

\* The k-th byte of the n-th message, which is of type t.
Byte(n, t, k) == [msg |-> n, type |-> t, at |-> k]
Bytes(n, t) == [k \in 1..Types[t].bytes |-> Byte(n, t, k)]

IsPing(packet) == packet[1].type = "ping"
SkipsQueue(packet) == packet[1].type \in {"ping", "progress"}
-----------------------------------------------------------------------------
(* ProtocolDef *)

\* 0 if more bytes are needed, negative if there is no such message. A byte from within a
\* message is no message's identity.
PacketLength(buf) ==
    LET t == Types[buf[1].type] IN
    IF buf[1].at # 1 THEN -2
    ELSE IF Len(buf) < t.head THEN 0
    ELSE IF t.says < t.head THEN -1
    ELSE t.says

IsValidPacket(buf) == PacketLength(buf) > 0 /\ Len(buf) >= PacketLength(buf)
-----------------------------------------------------------------------------
Init ==
    /\ local \in BOOLEAN
    /\ outgoingData = <<>> /\ chunks = <<>> /\ fragmentBuffer = <<>>
    /\ msgQueue = <<>> /\ numPings = 0 /\ reading = FALSE
    /\ sent = <<>> /\ taken = <<>>

PingsIn(packets) == Cardinality({i \in DOMAIN packets : IsPing(packets[i])})

\* A CLocalConnection puts what is sent into the queue of the other endpoint at once. That one
\* is there all the time here; in the code a ping is not counted while it is not, and its
\* queue is cleared when it is made (LocalConnection.cpp 25, 65-68).
SendData(t) ==
    LET packet == Bytes(Len(sent) + 1, t) IN
    /\ Len(sent) < MaxSend
    /\ sent' = Append(sent, packet)
    /\ IF ~local
       THEN outgoingData' = Append(outgoingData, packet) /\ UNCHANGED <<msgQueue, numPings>>
       ELSE /\ IF IsValidPacket(packet)
               THEN msgQueue' = Append(msgQueue, packet) /\ numPings' = numPings + PingsIn(<<packet>>)
               ELSE UNCHANGED <<msgQueue, numPings>>
            /\ UNCHANGED outgoingData
    /\ UNCHANGED <<local, chunks, fragmentBuffer, reading, taken>>

\* Above the bandwidth limit the flush ends, but not within a message.
BugSendMore(s) == s.forced \/ s.bandwidth >= 0
SendMore(s) == s.forced \/ s.partialPacket \/ s.bandwidth >= 0

\* The next message, or a part of it, goes into the buffer.
BugMoved(s) ==
    LET packet == Head(s.outgoingData)
        n == IF Len(packet) < MaxChunkSize - Len(s.buffer) THEN Len(packet) ELSE MaxChunkSize - Len(s.buffer)
    IN  [s EXCEPT !.buffer = @ \o SubSeq(packet, 1, n),
                  !.bandwidth = @ - n,
                  !.partialPacket = n # Len(packet),
                  !.outgoingData = Tail(@)]
Moved(s) ==
    LET packet == Head(s.outgoingData)
        room == MaxChunkSize - Len(s.buffer)
        n == IF Len(packet) < room THEN Len(packet) ELSE room
    IN
    IF ~s.partialPacket /\ ~IsValidPacket(packet)
    THEN [s EXCEPT !.outgoingData = Tail(@)]
    ELSE [s EXCEPT
            !.buffer = @ \o SubSeq(packet, 1, n),
            !.bandwidth = @ - n,
            !.partialPacket = n # Len(packet),
            !.outgoingData = IF n = Len(packet) THEN Tail(@)
                             ELSE <<SubSeq(packet, n + 1, Len(packet))>> \o Tail(@)]

BugChunkReady(s, more) == s.buffer # <<>> /\ (s.outgoingData = <<>> \/ Len(s.buffer) = MaxChunkSize)
ChunkReady(s, more) ==
    s.buffer # <<>> /\ (s.outgoingData = <<>> \/ Len(s.buffer) = MaxChunkSize \/ ~more)

\* Once through the loop of Flush.
Ended(s) == s.outgoingData = <<>> \/ ~s.sendMore

FlushTurn(s) ==
    LET more == SendMore(s)
        next == [IF more THEN Moved(s) ELSE s EXCEPT !.sendMore = more]
    IN
    IF Ended(s) THEN s
    ELSE IF ChunkReady(next, more)
    THEN [next EXCEPT !.chunks = Append(@, next.buffer), !.buffer = <<>>]
    ELSE next

\* Every turn but the last takes at least a byte from outgoingData.
Filled(s) ==
    LET run[n \in Nat] == IF n = 0 THEN s ELSE FlushTurn(run[n - 1])
    IN  run[Len(FlattenSeq(s.outgoingData))]

\* bandwidth is what is left of the limit, negative if it is exceeded already.
Flush(forced, bandwidth) ==
    LET s == Filled([outgoingData |-> outgoingData, chunks |-> chunks, buffer |-> <<>>,
                     partialPacket |-> FALSE, sendMore |-> TRUE, forced |-> forced,
                     bandwidth |-> bandwidth])
    IN
    /\ ~local /\ outgoingData # <<>>
    /\ UNCHANGED <<local, fragmentBuffer, msgQueue, numPings, reading, sent, taken>>
    /\ outgoingData' = s.outgoingData /\ chunks' = s.chunks
-----------------------------------------------------------------------------
(* The client *)

\* Once through the loop over the buffer: the message in front is queued, a part of one kept, and
\* of anything else a byte skipped.
ParseTurn(s) ==
    LET n == PacketLength(s.rest) IN
    IF s.rest = <<>> THEN s
    ELSE IF IsValidPacket(s.rest)
    THEN [s EXCEPT !.packets = Append(@, SubSeq(s.rest, 1, n)),
                   !.rest = SubSeq(@, n + 1, Len(@))]
    ELSE IF n >= 0
    THEN [s EXCEPT !.fragment = s.rest, !.rest = <<>>]
    ELSE [s EXCEPT !.rest = Tail(@)]

\* The messages in a buffer, and the part of one that remains.
Parsed(buf) ==
    LET run[n \in Nat] == IF n = 0 THEN [packets |-> <<>>, fragment |-> <<>>, rest |-> buf]
                          ELSE ParseTurn(run[n - 1])
    IN  run[Len(buf)]

\* What a chunk is put behind.
Continued == fragmentBuffer

\* The client's thread does not receive in the middle of ClientReadNet.
ProcessRawPacket ==
    /\ chunks # <<>> /\ ~reading
    /\ chunks' = Tail(chunks)
    /\ UNCHANGED <<local, outgoingData, reading, sent, taken>>
    /\ LET p == Parsed(Continued \o Head(chunks)) IN
       /\ msgQueue' = msgQueue \o p.packets
       /\ numPings' = numPings + PingsIn(p.packets)
       /\ fragmentBuffer' = p.fragment

\* DeleteBufferPacketAt: by how much numPings decreases. A CLocalConnection looks at the packet
\* in front.
BugUncounted(queue, i) == 1
BugUncountedInFront(queue, i) == PingsIn(<<queue[1]>>)
Uncounted(queue, i) == PingsIn(<<queue[IF local THEN 1 ELSE i]>>)

\* Once through the loop of GetNumQueuedSimFrameMessages.
ScanTurn(s) ==
    IF s.i > Len(s.queue) THEN s
    ELSE IF SkipsQueue(s.queue[s.i])
    THEN [s EXCEPT !.queue = RemoveAt(@, s.i), !.pings = @ - Uncounted(s.queue, s.i)]
    ELSE [s EXCEPT !.i = @ + 1]

\* The queue and numPings afterwards
Scanned(queue, pings) ==
    LET run[n \in Nat] == IF n = 0 THEN [queue |-> queue, pings |-> pings, i |-> 1]
                          ELSE ScanTurn(run[n - 1])
    IN  run[Len(queue)]

\* UpdateNumQueuedSimFrames. Who is not the host also scans twice a second.
BugScans(time) == ~local /\ time
Scans(time) == numPings > 0 \/ (~local /\ time)

ClientReadNet(time) ==
    /\ ~reading /\ reading' = TRUE
    /\ LET s == Scanned(msgQueue, numPings) IN
       IF Scans(time) THEN msgQueue' = s.queue /\ numPings' = s.pings
       ELSE UNCHANGED <<msgQueue, numPings>>
    /\ UNCHANGED <<local, outgoingData, chunks, fragmentBuffer, sent, taken>>

\* Messages that should not have waited are discarded here.
GetData ==
    /\ reading /\ msgQueue # <<>>
    /\ numPings' = numPings - PingsIn(<<Head(msgQueue)>>)
    /\ msgQueue' = Tail(msgQueue)
    /\ taken' = IF SkipsQueue(Head(msgQueue)) THEN taken ELSE Append(taken, Head(msgQueue))
    /\ UNCHANGED <<local, outgoingData, chunks, fragmentBuffer, reading, sent>>

\* Nothing is left, or the time for messages is over.
ClientReadNetEnds ==
    /\ reading /\ reading' = FALSE
    /\ UNCHANGED <<local, outgoingData, chunks, fragmentBuffer, msgQueue, numPings, sent, taken>>

Next ==
    \/ \E t \in DOMAIN Types : SendData(t)
    \/ \E b \in -1..MaxBandwidth : Flush(FALSE, b)
    \/ Flush(TRUE, -1)
    \/ ProcessRawPacket
    \/ \E time \in BOOLEAN : ClientReadNet(time)
    \/ GetData \/ ClientReadNetEnds

\* The average of what is sent sinks with time, so that flushes come below the limit. The
\* client's loop receives between calls of ClientReadNet, which has time for messages again
\* and again. The first three are WF, SF and WF of their actions, with ENABLED spelled out,
\* which TLC is slow to find for loops.
Fairness ==
    /\ []<>(outgoingData = <<>>) \/ []<><<Flush(FALSE, MaxBandwidth)>>_vars
    /\ <>[](chunks = <<>> \/ reading) \/ []<><<ProcessRawPacket>>_vars
    /\ []<>reading \/ []<><<\E time \in BOOLEAN : ClientReadNet(time)>>_vars
    /\ WF_vars(ClientReadNetEnds) /\ SF_vars(GetData)

Spec == Init /\ [][Next]_vars /\ Fairness
-----------------------------------------------------------------------------
(* Properties *)

\* What waits in buffers is made of bytes of messages; no chunk is empty or too large.
TypeOK ==
    LET byte == UNION {Range(sent[i]) : i \in DOMAIN sent} IN
    /\ local \in BOOLEAN /\ reading \in BOOLEAN /\ numPings \in Nat
    /\ \A s \in {outgoingData, chunks, msgQueue, taken} :
          \A i \in DOMAIN s : s[i] # <<>> /\ Range(s[i]) \subseteq byte
    /\ \A i \in DOMAIN chunks : Len(chunks[i]) <= MaxChunkSize
    /\ Range(fragmentBuffer) \subseteq byte

\* The client finds the ends of messages where the server put them, wherever they were cut:
\* what it queues are messages as they were sent, and what it keeps of one makes, with the
\* chunks on the way, whole messages with no byte between them (so no flush ends within one).
FramesFound ==
    LET bytes == FlattenSeq(<<fragmentBuffer>> \o chunks) IN
    /\ Range(msgQueue) \subseteq Range(sent)
    /\ FlattenSeq(Parsed(bytes).packets) = bytes

\* "on any *incoming* ping-response, just process NETMSG_PING": numPings, by which the client
\* decides to look for pings, is exact for a UDPConnection, and never too small for a
\* CLocalConnection, whose DeleteBufferPacketAt counts another packet than it deletes.
PingsCounted == numPings >= PingsIn(msgQueue) /\ (~local => numPings = PingsIn(msgQueue))

\* "if we received this packet here we are the local host player": no other client discards a
\* ping unprocessed.
PingsSkipQueue == reading /\ ~local => PingsIn(msgQueue) = 0

\* What must be processed in order
Waits(packet) == IsValidPacket(packet) /\ ~SkipsQueue(packet)

\* Those of a sequence that wait, in their order
InOrder(packets) ==
    LET run[n \in Nat] == IF n = 0 THEN <<>>
                          ELSE IF Waits(packets[n]) THEN Append(run[n - 1], packets[n])
                          ELSE run[n - 1]
    IN  run[Len(packets)]

\* The messages that must be processed in order are, whatever is cut, joined, discarded as
\* invalid or taken out of order: to them the connection is the FIFO stream of a CConnection.
Stream == INSTANCE ReliableStream WITH
    Data <- {Bytes(n, t) : n \in 1..MaxSend, t \in DOMAIN Types},
    sent <- [e \in {"client", "server"} |-> IF e = "server" THEN InOrder(sent) ELSE <<>>],
    delivered <- [e \in {"client", "server"} |-> IF e = "client" THEN taken ELSE <<>>]

ImplementsStream == Stream!Spec

\* None of them stays in a buffer for ever.
EverythingTaken ==
    \A n \in 1..MaxSend : Len(InOrder(sent)) >= n ~> Len(taken) >= n
=============================================================================
