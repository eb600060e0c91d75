--------------------------- MODULE UdpConnection ---------------------------
(***************************************************************************)
(* The reliable transport of rts/System/Net/UDPConnection.cpp: the two     *)
(* endpoints of one connection, the datagrams in flight between them, and  *)
(* what UDPListener, which reads the server's socket, does with a datagram *)
(* of this client.                                                         *)
(*                                                                         *)
(* A chunk is a number and a datum.  How messages are cut into chunks and  *)
(* put together again is the subject of module MessageStream; here Flush *)
(* turns every datum of outgoingData into one chunk.                       *)
(*                                                                         *)
(* Time is abstracted: a timer (lastNakTime, lastUnackResentTime,          *)
(* lastPacketSendTime) may or may not have elapsed when Flush runs, and    *)
(* the bandwidth limit may or may not cut a flush short.  A lost datagram, *)
(* one with a wrong checksum, and one the socket refuses are the same      *)
(* thing: one that the network does not keep.                              *)
(*                                                                         *)
(* An operator whose name begins with Bug is a variant of the definition   *)
(* after it as a plausible programming error would make it.  Nothing uses  *)
(* it; a property is worth its name if it fails with the variant.          *)
(***************************************************************************)
EXTENDS Integers, Sequences, FiniteSets

CONSTANTS
    Data,          \* what a chunk can carry
    Quit,          \* the datum with which a client takes leave
    ReconnectData, \* bound: what a reconnection attempt can carry
    LossFactors,   \* loss factors a configuration or a client may ask for
    ResendUnit,    \* resends per flush and unit of loss factor (code: 20)
    MaxNaks,       \* longest NAK request (code: 127, the range of int8_t)
    MaxNakOffset,  \* largest offset of a NAK (code: 255, the range of uint8_t)
    NakListLimit,  \* leading gap from which NAKs are a count (code: 8)
    MaxUnackDiff,  \* window in which NAKs are looked at (code: 256)
    MaxSend,       \* bound: data each endpoint submits
    Closers,       \* bound: the endpoints that may close the connection
    MaxPackets,    \* bound: datagrams one flush emits
    MaxInFlight    \* bound: datagrams the network keeps

Ends == {"client", "server"}

Peer(e) == IF e = "client" THEN "server" ELSE "client"

ASSUME ConstantsAssumption ==
    /\ ReconnectData \subseteq Data
    /\ LossFactors \subseteq Int
    /\ ResendUnit \in Nat \ {0}
    /\ MaxNaks \in Nat \ {0}
    /\ MaxNakOffset \in Nat
    /\ NakListLimit \in Nat
    /\ MaxUnackDiff \in Nat
    /\ MaxSend \in [Ends -> Nat]
    /\ Closers \subseteq Ends
    /\ MaxPackets \in Nat \ {0}
    /\ MaxInFlight \in Nat

VARIABLES
    outgoingData,           \* data waiting to be put into chunks
    newChunks,              \* chunks created and not yet sent
    unackedChunks,          \* chunks sent and not yet acknowledged
    resendRequested,        \* numbers of the chunks to send again
    currentPacketChunkNum,  \* number of the next chunk
    lastInOrder,            \* last chunk received without a gap before it
    waitingPackets,         \* chunks received after a gap
    netLossFactor,          \* how eagerly lost chunks are sent again
    muted,                  \* Flush does nothing
    closed,                 \* Close has been called
    net,                    \* datagrams in flight
    sent,                   \* history: data given to SendData
    delivered               \* history: data handed to the message queue

sender   == <<outgoingData, newChunks, unackedChunks, resendRequested,
              currentPacketChunkNum, sent>>
receiver == <<lastInOrder, waitingPackets, delivered>>
status   == <<netLossFactor, muted, closed>>
vars     == <<sender, receiver, status, net>>

Chunk == [num : Nat, data : Data]

Packet == [src : Ends, lastContinuous : Int, nakType : Int,
           naks : SUBSET (0..MaxNakOffset), chunks : SUBSET Chunk]

Nums(chunks) == {c.num : c \in chunks}

Elements(queue) == {queue[i] : i \in DOMAIN queue}

\* MIN_LOSS_FACTOR: every resend request is served once.
UseMinLossFactor(e) == netLossFactor[e] = 0

\* Only the server's socket is shared: it is read by the UDPListener, which
\* does not ask whether the connection is closed.
SharedSocket(e) == e = "server"

\* MIN_LOSS_FACTOR is 0, MAX_LOSS_FACTOR is 2.
ClampLossFactor(f) == IF f < 0 THEN 0 ELSE IF f > 2 THEN 2 ELSE f

Init ==
    /\ outgoingData = [e \in Ends |-> <<>>]
    /\ newChunks = [e \in Ends |-> <<>>]
    /\ unackedChunks = [e \in Ends |-> <<>>]
    /\ resendRequested = [e \in Ends |-> {}]
    /\ currentPacketChunkNum = [e \in Ends |-> 0]
    /\ lastInOrder = [e \in Ends |-> -1]
    /\ waitingPackets = [e \in Ends |-> {}]
    /\ netLossFactor \in [Ends -> {ClampLossFactor(f) : f \in LossFactors}]
    /\ muted = [e \in Ends |-> TRUE]
    /\ closed = [e \in Ends |-> FALSE]
    /\ net = {}
    /\ sent = [e \in Ends |-> <<>>]
    /\ delivered = [e \in Ends |-> <<>>]

-----------------------------------------------------------------------------
(* The calls of the connection's owner.                                    *)

\* The server's endpoint exists as soon as the listener has accepted chunk 0.
Exists(e) == e = "server" => lastInOrder[e] >= 0

\* What the owner may submit: the client begins with its connection attempt and
\* says no more than Quit before the server has answered, nothing after it.
MayAsk(e, d) ==
    e = "client" => /\ sent[e] = <<>> => d # Quit
                    /\ sent[e] # <<>> /\ delivered[e] = <<>> => d = Quit
                    /\ Quit \notin Elements(sent[e])

SendData(e, d) ==
    /\ Exists(e) /\ MayAsk(e, d)
    /\ Len(sent[e]) < MaxSend[e]
    /\ outgoingData' = [outgoingData EXCEPT ![e] = Append(@, d)]
    /\ sent' = [sent EXCEPT ![e] = Append(@, d)]
    /\ UNCHANGED <<newChunks, unackedChunks, resendRequested,
                   currentPacketChunkNum, receiver, status, net>>

\* The owner unmutes a connection it has accepted or opened, never a closed
\* one.
Unmute(e) ==
    /\ Exists(e) /\ muted[e] /\ ~closed[e]
    /\ muted' = [muted EXCEPT ![e] = FALSE]
    /\ UNCHANGED <<sender, receiver, netLossFactor, closed, net>>

\* The server adopts the loss factor its client asked for.
SetLossFactor(e, factor) ==
    /\ Exists(e)
    /\ netLossFactor' = [netLossFactor EXCEPT ![e] = ClampLossFactor(factor)]
    /\ UNCHANGED <<sender, receiver, muted, closed, net>>

-----------------------------------------------------------------------------
(* Receiving a datagram.                                                   *)

(* In what follows a queue is what remains of unackedChunks after AckChunks. *)

\* A chunk after the acknowledged one is popped too.
BugPopsTooMany(queue, ack, n) ==
    /\ n \in 0..Len(queue)
    /\ \A i \in 1..n : queue[i].num <= ack + 1
    /\ n < Len(queue) => ack + 1 < queue[n + 1].num

\* The acknowledged chunk itself is not popped.
BugPopsTooFew(queue, ack, n) ==
    /\ n \in 0..Len(queue)
    /\ \A i \in 1..n : queue[i].num < ack
    /\ n < Len(queue) => ack <= queue[n + 1].num

\* AckChunks pops the first n chunks of queue on an acknowledgement of ack.
Pops(queue, ack, n) ==
    /\ n \in 0..Len(queue)
    /\ \A i \in 1..n : queue[i].num <= ack
    /\ n < Len(queue) => ack < queue[n + 1].num

\* What the peer has received of us is not asked.
BugSuperfluousReconnect(e, p) ==
    lastInOrder[e] >= 0 /\ (unackedChunks[e] = <<>> \/ unackedChunks[e][1].num > 0)

\* A peer that has received nothing from us although we received from it and
\* it acknowledged our first chunk (or we never sent one).
SuperfluousReconnect(e, p) ==
    /\ p.lastContinuous < 0
    /\ lastInOrder[e] >= 0
    /\ unackedChunks[e] = <<>> \/ unackedChunks[e][1].num > 0

\* unAckDiff, for a non-empty queue of unacknowledged chunks
UnAckDiff(queue, p) == queue[1].num - (p.lastContinuous + 1)

\* The positions (from 0) in queue that the NAKs of p are taken to name.
NakPositions(queue, p) ==
    IF queue = <<>> \/ UnAckDiff(queue, p) \notin -MaxUnackDiff..MaxUnackDiff
    THEN {}
    ELSE LET offsets == IF p.nakType < 0 THEN 0..(-p.nakType - 1) ELSE p.naks
         IN  {UnAckDiff(queue, p) + o : o \in offsets} \cap Nat

\* RequestResend for every NAK that names an unacknowledged chunk
NakRequested(queue, p) ==
    {queue[pos + 1].num : pos \in NakPositions(queue, p) \cap 0..(Len(queue) - 1)}

\* A gap in the list of NAKs means that the peer has the chunk.
NakSkipped(queue, p) ==
    {queue[pos + 1].num : pos \in
        {q \in 0..(Len(queue) - 1) : /\ p.nakType > 0
                                     /\ q \notin NakPositions(queue, p)
                                     /\ \E r \in NakPositions(queue, p) : q < r}}

\* AckChunks does not touch the resend requests.
BugHandleAcks(e, p) ==
    \E n \in 0..Len(unackedChunks[e]) :
        /\ Pops(unackedChunks[e], p.lastContinuous, n)
        /\ LET queue == SubSeq(unackedChunks[e], n + 1, Len(unackedChunks[e]))
           IN  /\ unackedChunks' = [unackedChunks EXCEPT ![e] = queue]
               /\ resendRequested' = [resendRequested EXCEPT ![e] =
                      (@ \cup NakRequested(queue, p)) \ NakSkipped(queue, p)]

\* AckChunks, then the NAKs; UpdateResendRequests after each
HandleAcks(e, p) ==
    \E n \in 0..Len(unackedChunks[e]) :
        /\ Pops(unackedChunks[e], p.lastContinuous, n)
        /\ LET queue == SubSeq(unackedChunks[e], n + 1, Len(unackedChunks[e]))
           IN  /\ unackedChunks' = [unackedChunks EXCEPT ![e] = queue]
               /\ resendRequested' = [resendRequested EXCEPT ![e] =
                      ({r \in @ : p.lastContinuous < r} \cup NakRequested(queue, p))
                          \ NakSkipped(queue, p)]

\* Chunks that are neither processed nor waiting
NewArrivals(e, p) ==
    {c \in p.chunks : lastInOrder[e] < c.num /\ c.num \notin Nums(waitingPackets[e])}

\* Processing what waits in order ends with chunk k.
InOrderUpTo(waiting, first, k) ==
    /\ \A n \in first..k : n \in Nums(waiting)
    /\ (k + 1) \notin Nums(waiting)

\* Store the chunks that are new, process those without a gap before them.
HandleChunks(e, p) ==
    LET waiting == waitingPackets[e] \cup NewArrivals(e, p)
        first   == lastInOrder[e] + 1
    IN  \E k \in lastInOrder[e]..(lastInOrder[e] + Cardinality(waiting)) :
            /\ InOrderUpTo(waiting, first, k)
            /\ lastInOrder' = [lastInOrder EXCEPT ![e] = k]
            /\ waitingPackets' = [waitingPackets EXCEPT ![e] =
                                     {c \in waiting : k < c.num}]
            /\ delivered' = [delivered EXCEPT ![e] = @ \o
                   [i \in 1..(k - lastInOrder[e]) |->
                       (CHOOSE c \in waiting : c.num = lastInOrder[e] + i).data]]

ProcessRawPacket(e, p) ==
    /\ IF SuperfluousReconnect(e, p)
       THEN UNCHANGED <<unackedChunks, resendRequested, receiver>>
       ELSE HandleAcks(e, p) /\ HandleChunks(e, p)
    /\ UNCHANGED <<outgoingData, newChunks, currentPacketChunkNum, sent, status>>

\* The listener makes a connection for an unknown address if the datagram
\* begins with chunk 0 and acknowledges nothing.  (One that carries chunk 0
\* after another chunk is dropped: it counts as lost.)
OpensConnection(p) ==
    p.lastContinuous = -1 /\ p.nakType = 0 /\ 0 \in Nums(p.chunks)

\* The network delivers p; a datagram it duplicates stays in flight.
Receive(e, p, duplicated) ==
    /\ p.src = Peer(e)
    /\ SharedSocket(e) \/ ~closed[e]
    /\ net' = IF duplicated THEN net ELSE net \ {p}
    /\ IF Exists(e) \/ OpensConnection(p)
       THEN ProcessRawPacket(e, p)
       ELSE UNCHANGED <<sender, receiver, status>>

-----------------------------------------------------------------------------
(* Sending.                                                                *)

\* droppedPackets: the gaps before the chunks that wait
DroppedPackets(e) ==
    LET next == lastInOrder[e] + 1
    IN  {n \in next..(next + MaxNakOffset) :
            /\ n \notin Nums(waitingPackets[e])
            /\ \E m \in Nums(waitingPackets[e]) : n < m}

\* The gap is counted with the chunk after it.
BugNumContinuous(e) ==
    1 + Cardinality({n \in DroppedPackets(e) :
                        (lastInOrder[e] + 1)..n \subseteq DroppedPackets(e)})

\* numContinuous: the length of the gap that begins at the next chunk
NumContinuous(e) ==
    Cardinality({n \in DroppedPackets(e) :
                    (lastInOrder[e] + 1)..n \subseteq DroppedPackets(e)})

\* Offsets are counted from the last chunk in order.
BugNakOffsets(e) ==
    {n - lastInOrder[e] : n \in
        {d \in DroppedPackets(e) :
            Cardinality({m \in DroppedPackets(e) : m < d}) < MaxNaks}}

\* The offsets of the first MaxNaks dropped packets
NakOffsets(e) ==
    {n - (lastInOrder[e] + 1) : n \in
        {d \in DroppedPackets(e) :
            Cardinality({m \in DroppedPackets(e) : m < d}) < MaxNaks}}

\* NAKs are a list of offsets if the leading gap is short and the NAK timer
\* has elapsed, otherwise the length of the leading gap as a negative number.
UseNakList(e, nakDue) == nakDue /\ NumContinuous(e) < NakListLimit

Naks(e, nakDue) == IF UseNakList(e, nakDue) THEN NakOffsets(e) ELSE {}

NakType(e, nakDue) ==
    IF UseNakList(e, nakDue) THEN Cardinality(NakOffsets(e))
    ELSE IF NumContinuous(e) < MaxNaks THEN -NumContinuous(e) ELSE -MaxNaks

\* The i-th datagram of a flush.  With the smallest loss factor a NAK list is
\* put into the first one only.
FlushPacket(e, i, nakDue, chunks) ==
    LET repeat == i = 1 \/ ~UseMinLossFactor(e) \/ NakType(e, nakDue) < 0
    IN  [src            |-> e,
         lastContinuous |-> lastInOrder[e],
         nakType        |-> IF repeat THEN NakType(e, nakDue) ELSE 0,
         naks           |-> IF repeat THEN Naks(e, nakDue) ELSE {},
         chunks         |-> chunks]

\* The smallest loss factor gets no exception, and so no resends.
BugMaxResend(e, requested) ==
    IF Cardinality(requested) < ResendUnit * netLossFactor[e]
    THEN Cardinality(requested)
    ELSE ResendUnit * netLossFactor[e]

\* How many of the requested chunks one flush may send again
MaxResend(e, requested) ==
    IF UseMinLossFactor(e) \/ Cardinality(requested) < ResendUnit * netLossFactor[e]
    THEN Cardinality(requested)
    ELSE ResendUnit * netLossFactor[e]

Smallest(n, numbers) == {r \in numbers : Cardinality({q \in numbers : q < r}) < n}

Largest(n, numbers) == {r \in numbers : Cardinality({q \in numbers : r < q}) < n}

\* Chunks are taken from the back first.
BugInResendOrder(e, requested, again) ==
    again = Largest(Cardinality(again), requested)

\* The requested chunks are sent again from the front.  With a larger loss
\* factor one in four is taken from the front, one from the back and two from
\* the middle, where the last flush stopped.
InResendOrder(e, requested, again) ==
    LET k == Cardinality(again)
    IN  IF UseMinLossFactor(e)
        THEN again = Smallest(k, requested)
        ELSE Smallest((k + 3) \div 4, requested) \cup Largest((k + 2) \div 4, requested)
                 \subseteq again

\* The chunks of a flush are spread over the datagrams 1..n, none of which is
\* empty unless there is nothing to send; n = 0 when the bandwidth is used up
\* before the first one.
Spread(chunks, n) ==
    IF chunks = {}
    THEN IF n < 2 THEN {[c \in {} |-> n]} ELSE {}
    ELSE {f \in [chunks -> 1..n] : \A i \in 1..n : \E c \in chunks : f[c] = i}

\* The loop of SendIfNecessary sends the first m new chunks and some of the
\* requested ones in n datagrams, of which the network keeps some.  full: it
\* keeps all of them, and the bandwidth limit does not end the loop early.
SendPackets(e, queue, requested, nakDue, full) ==
    \E m \in 0..Len(queue), again \in SUBSET requested, n \in 0..MaxPackets :
        LET fresh  == SubSeq(queue, 1, m)
            chunks == Elements(fresh) \cup
                          {c \in Elements(unackedChunks[e]) : c.num \in again}
        IN  /\ Cardinality(again) <= MaxResend(e, requested)
            /\ InResendOrder(e, requested, again)
            /\ full => /\ m = Len(queue) /\ n > 0
                       /\ Cardinality(again) = MaxResend(e, requested)
            /\ \E f \in Spread(chunks, n) :
               LET packets == {FlushPacket(e, i, nakDue, {c \in chunks : f[c] = i})
                                 : i \in 1..n}
               IN  \E kept \in SUBSET packets :
                       /\ full => kept = packets
                       /\ net' = net \cup kept
                       /\ Cardinality(net') <= MaxInFlight
            /\ newChunks' = [newChunks EXCEPT ![e] = SubSeq(queue, m + 1, Len(queue))]
            /\ unackedChunks' = [unackedChunks EXCEPT ![e] = @ \o fresh]
            /\ resendRequested' = [resendRequested EXCEPT ![e] =
                   IF UseMinLossFactor(e) THEN requested \ again
                   ELSE requested \cup Nums(Elements(fresh))]

\* SendIfNecessary after Flush has extended newChunks to queue.  sendDue: the
\* flush is forced, or no datagram was sent for a while.
SendIfNecessary(e, queue, nakDue, unackDue, sendDue, full) ==
    LET unacked   == unackedChunks[e]
        requested == resendRequested[e] \cup
                       IF unackDue /\ queue = <<>> /\ unacked # <<>>
                       THEN {unacked[Len(unacked)].num} ELSE {}
        send == \/ sendDue
                \/ queue # <<>>
                \/ UseMinLossFactor(e) /\ requested # {}
                \/ NakType(e, nakDue) > 0
    IN  IF send
        THEN SendPackets(e, queue, requested, nakDue, full)
        ELSE /\ resendRequested' = [resendRequested EXCEPT ![e] = requested]
             /\ newChunks' = [newChunks EXCEPT ![e] = queue]
             /\ UNCHANGED <<unackedChunks, net>>

\* The chunk number is not incremented within a flush.
BugCreateChunksSameNumber(e, n) ==
    [i \in 1..n |-> [num |-> currentPacketChunkNum[e], data |-> outgoingData[e][i]]]

\* Data are taken from the back of outgoingData.
BugCreateChunksFromBack(e, n) ==
    [i \in 1..n |-> [num |-> currentPacketChunkNum[e] + i - 1,
                     data |-> outgoingData[e][Len(outgoingData[e]) + 1 - i]]]

\* The chunks made of the first n data of outgoingData
CreateChunks(e, n) ==
    [i \in 1..n |-> [num |-> currentPacketChunkNum[e] + i - 1,
                     data |-> outgoingData[e][i]]]

\* Flush makes chunks of none of the data if the last chunk is recent or there
\* is too little of it, of some if the bandwidth limit is hit, of all if it is
\* forced; a forced flush is one with n = Len(outgoingData[e]) and sendDue.
Flush(e, nakDue, unackDue, sendDue, full) ==
    /\ ~muted[e]
    /\ \E n \in 0..Len(outgoingData[e]) :
        /\ full => n = Len(outgoingData[e])
        /\ outgoingData' = [outgoingData EXCEPT ![e] = SubSeq(@, n + 1, Len(@))]
        /\ currentPacketChunkNum' = [currentPacketChunkNum EXCEPT ![e] = @ + n]
        /\ SendIfNecessary(e, newChunks[e] \o CreateChunks(e, n),
                           nakDue, unackDue, sendDue, full)
    /\ UNCHANGED <<sent, receiver>>

\* A periodic or forced flush
Update(e) ==
    /\ \E nakDue, unackDue, sendDue \in BOOLEAN :
          Flush(e, nakDue, unackDue, sendDue, FALSE)
    /\ UNCHANGED status

\* Close flushes a last time unless the connection is muted.
Close(e) ==
    /\ Exists(e) /\ ~closed[e]
    /\ \/ muted[e] /\ UNCHANGED <<sender, receiver, net>>
       \/ \E nakDue, unackDue, sendDue \in BOOLEAN :
             Flush(e, nakDue, unackDue, sendDue, FALSE)
    /\ muted' = [muted EXCEPT ![e] = TRUE]
    /\ closed' = [closed EXCEPT ![e] = TRUE]
    /\ UNCHANGED netLossFactor

\* A client of a running game that hears nothing for a while makes a second
\* connection on the same socket.  It sends the attempt as its chunk 0, then,
\* when it is destroyed, a datagram without chunks.  To the server they come
\* from this connection.
AttemptReconnect(d) ==
    /\ delivered["client"] # <<>> /\ ~closed["client"]
    /\ \E chunks \in {{}, {[num |-> 0, data |-> d]}} :
          net' = net \cup {[src |-> "client", lastContinuous |-> -1, nakType |-> 0,
                            naks |-> {}, chunks |-> chunks]}
    /\ Cardinality(net') <= MaxInFlight
    /\ UNCHANGED <<sender, receiver, status>>

Next ==
    \/ \E d \in ReconnectData : AttemptReconnect(d)
    \/ \E e \in Ends :
        \/ \E d \in Data : SendData(e, d)
        \/ Unmute(e)
        \/ e = "server" /\ \E f \in LossFactors : SetLossFactor(e, f)
        \/ \E p \in net, duplicated \in BOOLEAN : Receive(e, p, duplicated)
        \/ Update(e)
        \/ e \in Closers /\ Close(e)

Spec == Init /\ [][Next]_vars

-----------------------------------------------------------------------------
(* Properties.                                                             *)

TypeOK ==
    /\ outgoingData \in [Ends -> Seq(Data)]
    /\ newChunks \in [Ends -> Seq(Chunk)]
    /\ unackedChunks \in [Ends -> Seq(Chunk)]
    /\ resendRequested \in [Ends -> SUBSET Nat]
    /\ currentPacketChunkNum \in [Ends -> Nat]
    /\ lastInOrder \in [Ends -> Nat \cup {-1}]
    /\ waitingPackets \in [Ends -> SUBSET Chunk]
    /\ netLossFactor \in [Ends -> 0..2]
    /\ muted \in [Ends -> BOOLEAN]
    /\ closed \in [Ends -> BOOLEAN]
    /\ net \subseteq Packet
    /\ sent \in [Ends -> Seq(Data)]
    /\ delivered \in [Ends -> Seq(Data)]

\* What an endpoint hands to its message queue is a prefix of what the other
\* one submitted: nothing is lost, repeated, reordered or made up, whatever
\* the network does.
InOrderExactlyOnce ==
    \A e \in Ends : /\ Len(delivered[e]) <= Len(sent[Peer(e)])
                    /\ \A i \in 1..Len(delivered[e]) :
                          delivered[e][i] = sent[Peer(e)][i]

\* A chunk the peer has not processed is still held by its sender: no
\* acknowledgement, stale or duplicated, makes AckChunks forget it.
NothingForgotten ==
    \A e \in Ends : \A n \in (lastInOrder[Peer(e)] + 1)..(currentPacketChunkNum[e] - 1) :
        n \in Nums(Elements(unackedChunks[e]) \cup Elements(newChunks[e]))

\* Only chunks that are sent and not acknowledged are sent again.
ResendOnlyUnacked ==
    \A e \in Ends : resendRequested[e] \subseteq Nums(Elements(unackedChunks[e]))

\* The chunks that p names as missing, and the one after a leading gap, are below limit.
NaksBelow(p, limit) ==
    /\ \A o \in p.naks : p.lastContinuous + 1 + o < limit
    /\ p.nakType < 0 => p.lastContinuous + 1 - p.nakType < limit

\* A NAK in flight names chunks its receiver has already sent.
NaksNameSentChunks ==
    \A p \in net :
        NaksBelow(p, currentPacketChunkNum[Peer(p.src)] - Len(newChunks[Peer(p.src)]))

\* The assertions of ProcessRawPacket: the chunk found at the position computed
\* for a NAK is the one the NAK names.
NakAssertion ==
    \A p \in net, e \in Ends : \A n \in 0..Len(unackedChunks[e]) :
        LET queue == SubSeq(unackedChunks[e], n + 1, Len(unackedChunks[e]))
        IN  p.src = Peer(e) /\ ~SuperfluousReconnect(e, p)
              /\ Pops(unackedChunks[e], p.lastContinuous, n) =>
                \A pos \in NakPositions(queue, p) \cap 0..(Len(queue) - 1) :
                    queue[pos + 1].num =
                        p.lastContinuous + 1 + (pos - UnAckDiff(queue, p))

\* A datagram that is discarded as a "superfluous reconnection attempt" brings
\* nothing new, except the Quit of a client that has not been answered.
DiscardsLoseOnlyQuit ==
    \A p \in net, e \in Ends :
        p.src = Peer(e) /\ SuperfluousReconnect(e, p) =>
            \A c \in NewArrivals(e, p) : c.data = Quit

\* The connection implements the FIFO stream its owners rely on.
Stream == INSTANCE ReliableStream

ImplementsStream == Stream!Spec

-----------------------------------------------------------------------------
(* Fairness.                                                               *)

\* The owner calls Update in a loop, so all timers have elapsed again and
\* again; the network and the bandwidth limit do not always interfere, in
\* particular not with every datagram in which some chunk is sent again.
ClearFlush(e) == Flush(e, TRUE, TRUE, TRUE, TRUE) /\ UNCHANGED status

\* The datagrams of MaxSend chunks each way, where there is a single datum. There is a
\* gap only before a chunk that has arrived.
PossiblePackets ==
    {p \in UNION {[src            : {e},
                   lastContinuous : -1..(MaxSend[Peer(e)] - 1),
                   nakType        : -MaxNaks..MaxNaks,
                   naks           : SUBSET (0..MaxNakOffset),
                   chunks         : SUBSET [num : 0..(MaxSend[e] - 1), data : Data]]
                  : e \in Ends} :
        /\ Cardinality(p.naks) = IF p.nakType > 0 THEN p.nakType ELSE 0
        /\ p.nakType # 0 => p.lastContinuous + 2 < MaxSend[Peer(p.src)]}

Fairness ==
    \A e \in Ends :
        /\ WF_vars(Unmute(e))
        /\ SF_vars(ClearFlush(e))
        /\ \A c \in 0..(MaxSend[e] - 1) :
              SF_vars(c \in resendRequested[e] /\ ClearFlush(e))
        /\ \A p \in PossiblePackets : WF_vars(p \in net /\ Receive(e, p, FALSE))

FairSpec == Spec /\ Fairness

\* The server comes to know a client that asks, unless the client gives up.
EventuallyConnected ==
    sent["client"] # <<>>
        ~> Exists("server") \/ closed["client"] \/ Quit \in Elements(sent["client"])

\* As soon as both endpoints have submitted something, everything submitted is
\* delivered, unless somebody closes the connection. (MaxSend ends the submitting, so
\* that the receiver catches up.)
EventuallyDelivered ==
    \A e \in Ends :
        sent[e] # <<>> /\ sent[Peer(e)] # <<>>
            ~> Len(delivered[Peer(e)]) = Len(sent[e]) \/ TRUE \in {closed[x] : x \in Ends}

\* ... and acknowledged, so that the sender's queues drain.
EventuallyAcknowledged ==
    \A e \in Ends :
        (\A x \in Ends : sent[x] # <<>>)
            ~> (unackedChunks[e] = <<>> \/ TRUE \in {closed[x] : x \in Ends})
=============================================================================
