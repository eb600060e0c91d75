------------------------ MODULE UdpConnectionProofs ------------------------
(***************************************************************************)
(* Proofs about UdpConnection for any data, any limits, any number of      *)
(* chunks and any number of datagrams in flight.                           *)
(***************************************************************************)
EXTENDS UdpConnection, FiniteSetTheorems, SequenceTheorems, TLAPS

\* The number of chunks of e that have been sent at least once
SentOnce(e) == currentPacketChunkNum[e] - Len(newChunks[e])

\* The oldest chunk of e that is not acknowledged
FirstUnacked(e) == SentOnce(e) - Len(unackedChunks[e])

\* The n-th chunk of e, with the datum submitted as its n-th
ChunkOf(e, n) == [num |-> n, data |-> sent[e][n + 1]]

\* Chunks of e that others may know
SentChunk(e, c) == \E n \in 0..(SentOnce(e) - 1) : c = ChunkOf(e, n)

\* outgoingData holds the data that are not in chunks yet.
OutgoingInv(e) ==
    /\ Len(sent[e]) = currentPacketChunkNum[e] + Len(outgoingData[e])
    /\ \A i \in 1..Len(outgoingData[e]) :
          outgoingData[e][i] = sent[e][currentPacketChunkNum[e] + i]

\* unackedChunks and newChunks hold consecutive chunks, up to the last one.
QueueInv(e) ==
    /\ \A i \in 1..Len(newChunks[e]) :
          newChunks[e][i] = ChunkOf(e, SentOnce(e) + i - 1)
    /\ \A i \in 1..Len(unackedChunks[e]) :
          unackedChunks[e][i] = ChunkOf(e, FirstUnacked(e) + i - 1)
    /\ 0 <= FirstUnacked(e)
    /\ resendRequested[e] \subseteq FirstUnacked(e)..(SentOnce(e) - 1)

\* What is acknowledged is processed, and what is processed has been sent.
AckInv(e) ==
    /\ FirstUnacked(e) <= lastInOrder[Peer(e)] + 1
    /\ lastInOrder[Peer(e)] + 1 <= SentOnce(e)

\* The peer of e holds chunks of e and has delivered the data of e in order.
PeerInv(e) ==
    /\ \A c \in waitingPackets[Peer(e)] :
          SentChunk(e, c) /\ lastInOrder[Peer(e)] < c.num
    /\ Len(delivered[Peer(e)]) = lastInOrder[Peer(e)] + 1
    /\ \A i \in 1..Len(delivered[Peer(e)]) : delivered[Peer(e)][i] = sent[e][i]

\* The chunk of a reconnection attempt, which the server has received before
Reattempt(e, c) == e = "client" /\ c.num = 0 /\ lastInOrder["server"] >= 0

\* A datagram acknowledges no more than its source has processed.
NetInv ==
    \A p \in net : /\ p.lastContinuous <= lastInOrder[p.src]
                   /\ \A c \in p.chunks : SentChunk(p.src, c) \/ Reattempt(p.src, c)

\* The server says nothing before it has heard the client.
AnswerInv == sent["server"] # <<>> => lastInOrder["server"] >= 0

IndInv ==
    /\ TypeOK
    /\ \A e \in Ends : OutgoingInv(e) /\ QueueInv(e) /\ AckInv(e) /\ PeerInv(e)
    /\ NetInv
    /\ AnswerInv

-----------------------------------------------------------------------------
(* Facts about the data structures.                                        *)

\* Peer swaps the two endpoints.
LEMMA PeerFacts ==
    ASSUME NEW e \in Ends
    PROVE  /\ Peer(e) \in Ends
           /\ Peer(e) # e
           /\ Peer(Peer(e)) = e
           /\ \A f \in Ends : f # e => f = Peer(e)
  BY DEF Ends, Peer

\* What remains of a queue when its first n elements are popped.
LEMMA SuffixFacts ==
    ASSUME NEW S, NEW s \in Seq(S), NEW n \in 0..Len(s)
    PROVE  /\ SubSeq(s, n + 1, Len(s)) \in Seq(S)
           /\ Len(SubSeq(s, n + 1, Len(s))) = Len(s) - n
           /\ \A i \in 1..(Len(s) - n) : SubSeq(s, n + 1, Len(s))[i] = s[n + i]
<1>1. Len(s) \in Nat
  BY LenProperties
<1>2. \A i \in (n + 1)..Len(s) : s[i] \in S
  BY ElementOfSeq, <1>1
<1>3. /\ SubSeq(s, n + 1, Len(s)) \in Seq(S)
      /\ Len(SubSeq(s, n + 1, Len(s))) = IF n + 1 <= Len(s) THEN Len(s) - (n + 1) + 1 ELSE 0
      /\ \A i \in 1..(Len(s) - (n + 1) + 1) :
            SubSeq(s, n + 1, Len(s))[i] = s[(n + 1) + i - 1]
  BY <1>1, <1>2, SubSeqProperties
<1>4. Len(s) - (n + 1) + 1 = Len(s) - n
  BY <1>1
<1>5. \A i \in 1..(Len(s) - n) : (n + 1) + i - 1 = n + i
  BY <1>1
<1>6. Len(SubSeq(s, n + 1, Len(s))) = Len(s) - n
  BY <1>1, <1>3
<1>7. \A i \in 1..(Len(s) - n) : SubSeq(s, n + 1, Len(s))[i] = s[n + i]
  BY <1>3, <1>4, <1>5, Zenon
<1> QED
  BY <1>3, <1>6, <1>7

\* The first n elements of a queue.
LEMMA PrefixFacts ==
    ASSUME NEW S, NEW s \in Seq(S), NEW n \in 0..Len(s)
    PROVE  /\ SubSeq(s, 1, n) \in Seq(S)
           /\ Len(SubSeq(s, 1, n)) = n
           /\ \A i \in 1..n : SubSeq(s, 1, n)[i] = s[i]
<1>1. Len(s) \in Nat /\ n \in Int
  BY LenProperties
<1>2. \A i \in 1..n : s[i] \in S
  BY ElementOfSeq, <1>1
<1>3. /\ SubSeq(s, 1, n) \in Seq(S)
      /\ Len(SubSeq(s, 1, n)) = IF 1 <= n THEN n - 1 + 1 ELSE 0
      /\ \A i \in 1..(n - 1 + 1) : SubSeq(s, 1, n)[i] = s[1 + i - 1]
  BY <1>1, <1>2, SubSeqProperties
<1>4. n - 1 + 1 = n /\ \A i \in 1..n : 1 + i - 1 = i
  BY <1>1
<1> QED
  BY <1>1, <1>3, <1>4

\* FlushPacket builds a datagram that fits its format.
LEMMA PacketType ==
    ASSUME TypeOK, NEW e \in Ends, NEW i, NEW nakDue, NEW chunks \in SUBSET Chunk
    PROVE  /\ FlushPacket(e, i, nakDue, chunks) \in Packet
           /\ FlushPacket(e, i, nakDue, chunks).src = e
           /\ FlushPacket(e, i, nakDue, chunks).lastContinuous = lastInOrder[e]
           /\ FlushPacket(e, i, nakDue, chunks).chunks = chunks
           /\ FlushPacket(e, i, nakDue, chunks).naks \subseteq NakOffsets(e)
           /\ FlushPacket(e, i, nakDue, chunks).nakType >= -NumContinuous(e)
<1> DEFINE next == lastInOrder[e] + 1
           lead == {n \in DroppedPackets(e) : next..n \subseteq DroppedPackets(e)}
<1>1. lastInOrder[e] \in Int /\ next \in Int /\ MaxNakOffset \in Nat /\ MaxNaks \in Nat
  BY ConstantsAssumption DEF TypeOK
<1>2. DroppedPackets(e) \subseteq next..(next + MaxNakOffset)
  BY <1>1 DEF DroppedPackets
<1>3. NakOffsets(e) \subseteq 0..MaxNakOffset
  <2>1. SUFFICES ASSUME NEW o \in NakOffsets(e)
                 PROVE  o \in 0..MaxNakOffset
    OBVIOUS
  <2>2. PICK d \in DroppedPackets(e) : o = d - (lastInOrder[e] + 1)
    BY <2>1 DEF NakOffsets
  <2>3. d \in next..(next + MaxNakOffset)
    BY <2>2, <1>2
  <2> QED
    BY <2>2, <2>3, <1>1
<1>4. IsFiniteSet(0..MaxNakOffset) /\ IsFiniteSet(next..(next + MaxNakOffset))
  <2>1. 0 \in Int /\ MaxNakOffset \in Int /\ next + MaxNakOffset \in Int
    BY <1>1
  <2> HIDE DEF next
  <2> QED
    BY <1>1, <2>1, FS_Interval, Zenon
<1>5. Cardinality(NakOffsets(e)) \in Nat
  BY <1>3, <1>4, FS_Subset, FS_CardinalityType
<1>6. NumContinuous(e) \in Nat
  <2>1. lead \in SUBSET (next..(next + MaxNakOffset))
    BY <1>2
  <2>2. Cardinality(lead) \in Nat
    BY <2>1, <1>4, FS_Subset, FS_CardinalityType
  <2> QED
    BY <2>2 DEF NumContinuous
<1>7. NakType(e, nakDue) \in Int /\ NakType(e, nakDue) >= -NumContinuous(e)
  BY <1>1, <1>5, <1>6 DEF NakType
<1>8. Naks(e, nakDue) \in SUBSET (0..MaxNakOffset) /\ Naks(e, nakDue) \subseteq NakOffsets(e)
  BY <1>3 DEF Naks
<1> QED
  BY <1>1, <1>6, <1>7, <1>8 DEF FlushPacket, Packet

-----------------------------------------------------------------------------
(* What a flush does, in one formula for all of its cases.                 *)

\* newChunks after n data have been put into chunks
Queue(e, n) == newChunks[e] \o CreateChunks(e, n)

\* n data have been put into chunks, then the first m new chunks were sent.
FlushResult(e, n, m) ==
    /\ outgoingData' = [outgoingData EXCEPT ![e] = SubSeq(@, n + 1, Len(@))]
    /\ currentPacketChunkNum' = [currentPacketChunkNum EXCEPT ![e] = @ + n]
    /\ newChunks' = [newChunks EXCEPT ![e] = SubSeq(Queue(e, n), m + 1, Len(Queue(e, n)))]
    /\ unackedChunks' = [unackedChunks EXCEPT ![e] = @ \o SubSeq(Queue(e, n), 1, m)]
    /\ \E r : resendRequested' = [resendRequested EXCEPT ![e] = r]
    /\ resendRequested'[e] \subseteq
          resendRequested[e] \cup Nums(Elements(unackedChunks[e]))
                             \cup Nums(Elements(SubSeq(Queue(e, n), 1, m)))
    /\ \A p \in net' : p \in net \/ /\ p \in Packet
                                    /\ p.src = e
                                    /\ p.lastContinuous = lastInOrder[e]
                                    /\ p.naks \subseteq NakOffsets(e)
                                    /\ p.nakType >= -NumContinuous(e)
                                    /\ p.chunks \subseteq
                                          Elements(unackedChunks[e]) \cup
                                          Elements(SubSeq(Queue(e, n), 1, m))
    /\ UNCHANGED <<sent, receiver>>

\* CreateChunks numbers the chunks consecutively.
LEMMA QueueFacts ==
    ASSUME TypeOK, NEW e \in Ends, NEW n \in 0..Len(outgoingData[e])
    PROVE  /\ Queue(e, n) \in Seq(Chunk)
           /\ Len(Queue(e, n)) = Len(newChunks[e]) + n
           /\ \A i \in 1..(Len(newChunks[e]) + n) : Queue(e, n)[i] =
                IF i <= Len(newChunks[e]) THEN newChunks[e][i]
                ELSE CreateChunks(e, n)[i - Len(newChunks[e])]
<1>1. /\ outgoingData[e] \in Seq(Data) /\ newChunks[e] \in Seq(Chunk)
      /\ currentPacketChunkNum[e] \in Nat
  BY DEF TypeOK
<1>2. Len(outgoingData[e]) \in Nat
  BY <1>1, LenProperties
<1>3. \A i \in 1..n : outgoingData[e][i] \in Data
  BY <1>1, <1>2, ElementOfSeq
<1>4. CreateChunks(e, n) \in [1..n -> Chunk]
  BY <1>1, <1>2, <1>3 DEF CreateChunks, Chunk
<1>5. CreateChunks(e, n) \in Seq(Chunk) /\ Len(CreateChunks(e, n)) = n
  BY <1>2, <1>4
<1> DEFINE created == CreateChunks(e, n)
<1> HIDE DEF created
<1>6. /\ newChunks[e] \o created \in Seq(Chunk)
      /\ Len(newChunks[e] \o created) = Len(newChunks[e]) + Len(created)
      /\ \A i \in 1..(Len(newChunks[e]) + Len(created)) : (newChunks[e] \o created)[i] =
            IF i <= Len(newChunks[e]) THEN newChunks[e][i]
            ELSE created[i - Len(newChunks[e])]
  <2>1. created \in Seq(Chunk)
    BY <1>5 DEF created
  <2> QED
    BY <1>1, <2>1, ConcatProperties, Zenon
<1>7. Len(created) = n
  BY <1>5 DEF created
<1>8. Queue(e, n) = newChunks[e] \o created
  BY DEF Queue, created
<1> QED
  BY <1>6, <1>7, <1>8, Zenon DEF created

\* Every flush has such a result.
LEMMA FlushHasResult ==
    ASSUME TypeOK, NEW e \in Ends, NEW nakDue, NEW unackDue, NEW sendDue, NEW full,
           Flush(e, nakDue, unackDue, sendDue, full)
    PROVE  \E n \in 0..Len(outgoingData[e]) : \E m \in 0..Len(Queue(e, n)) :
              FlushResult(e, n, m)
<1>1. PICK n \in 0..Len(outgoingData[e]) :
        /\ outgoingData' = [outgoingData EXCEPT ![e] = SubSeq(@, n + 1, Len(@))]
        /\ currentPacketChunkNum' = [currentPacketChunkNum EXCEPT ![e] = @ + n]
        /\ SendIfNecessary(e, Queue(e, n), nakDue, unackDue, sendDue, full)
  BY DEF Flush, Queue
<1>2. UNCHANGED <<sent, receiver>>
  BY DEF Flush
<1> DEFINE queue == Queue(e, n)
           unacked == unackedChunks[e]
           requested == resendRequested[e] \cup
                          IF unackDue /\ queue = <<>> /\ unacked # <<>>
                          THEN {unacked[Len(unacked)].num} ELSE {}
<1>3. queue \in Seq(Chunk) /\ unacked \in Seq(Chunk)
  BY QueueFacts DEF TypeOK
<1>4. Len(queue) \in Nat /\ Len(unacked) \in Nat /\ DOMAIN unacked = 1..Len(unacked)
  BY <1>3, LenProperties
<1>5. requested \subseteq resendRequested[e] \cup Nums(Elements(unacked))
  <2>1. unacked # <<>> => Len(unacked) \in DOMAIN unacked
    BY <1>3, <1>4, EmptySeq
  <2> QED
    BY <2>1 DEF Nums, Elements
<1>6. CASE /\ resendRequested' = [resendRequested EXCEPT ![e] = requested]
           /\ newChunks' = [newChunks EXCEPT ![e] = queue]
           /\ UNCHANGED <<unackedChunks, net>>
  <2>1. /\ SubSeq(queue, 0 + 1, Len(queue)) = queue
        /\ SubSeq(queue, 1, 0) = <<>>
        /\ unacked \o <<>> = unacked
    BY <1>3, SubSeqFull, SubSeqEmpty, ConcatEmptySeq
  <2>2. unackedChunks' = [unackedChunks EXCEPT ![e] = @ \o SubSeq(queue, 1, 0)]
    BY <1>6, <2>1 DEF TypeOK
  <2>3. resendRequested'[e] = requested
    BY <1>6 DEF TypeOK
  <2>4. FlushResult(e, n, 0)
    BY <1>1, <1>2, <1>5, <1>6, <2>1, <2>2, <2>3 DEF FlushResult
  <2> QED
    BY <2>4, <1>4
<1>7. CASE SendPackets(e, queue, requested, nakDue, full)
  <2>1. PICK m \in 0..Len(queue), again \in SUBSET requested, k \in 0..MaxPackets :
             LET fresh  == SubSeq(queue, 1, m)
                 chunks == Elements(fresh) \cup {c \in Elements(unacked) : c.num \in again}
             IN  /\ Cardinality(again) <= MaxResend(e, requested)
                 /\ InResendOrder(e, requested, again)
                 /\ full => /\ m = Len(queue) /\ k > 0
                            /\ Cardinality(again) = MaxResend(e, requested)
                 /\ \E f \in Spread(chunks, k) :
                    LET packets == {FlushPacket(e, i, nakDue, {c \in chunks : f[c] = i})
                                      : i \in 1..k}
                    IN  \E kept \in SUBSET packets :
                            /\ full => kept = packets
                            /\ net' = net \cup kept
                            /\ Cardinality(net') <= MaxInFlight
                 /\ newChunks' = [newChunks EXCEPT ![e] = SubSeq(queue, m + 1, Len(queue))]
                 /\ unackedChunks' = [unackedChunks EXCEPT ![e] = @ \o fresh]
                 /\ resendRequested' = [resendRequested EXCEPT ![e] =
                        IF UseMinLossFactor(e) THEN requested \ again
                        ELSE requested \cup Nums(Elements(fresh))]
    BY <1>7, Zenon DEF SendPackets
  <2> DEFINE fresh  == SubSeq(queue, 1, m)
             chunks == Elements(fresh) \cup {c \in Elements(unacked) : c.num \in again}
  <2>2. fresh \in Seq(Chunk)
    BY <1>3, PrefixFacts
  <2>3. chunks \subseteq Chunk
    BY <1>3, <2>2, LenProperties, ElementOfSeq DEF Elements
  <2>4. PICK f \in Spread(chunks, k) :
            \E kept \in SUBSET {FlushPacket(e, i, nakDue, {c \in chunks : f[c] = i})
                                   : i \in 1..k} : net' = net \cup kept
    BY <2>1
  <2>5. ASSUME NEW p \in net', p \notin net
        PROVE  /\ p \in Packet
               /\ p.src = e
               /\ p.lastContinuous = lastInOrder[e]
               /\ p.naks \subseteq NakOffsets(e)
               /\ p.nakType >= -NumContinuous(e)
               /\ p.chunks \subseteq Elements(unacked) \cup Elements(fresh)
    <3>1. PICK i \in 1..k : p = FlushPacket(e, i, nakDue, {c \in chunks : f[c] = i})
      BY <2>4, <2>5
    <3>2. {c \in chunks : f[c] = i} \in SUBSET Chunk
      BY <2>3
    <3>3. /\ p \in Packet
          /\ p.src = e
          /\ p.lastContinuous = lastInOrder[e]
          /\ p.naks \subseteq NakOffsets(e)
          /\ p.nakType >= -NumContinuous(e)
          /\ p.chunks = {c \in chunks : f[c] = i}
      BY <3>1, <3>2, PacketType
    <3> QED
      BY <3>3
  <2>6. resendRequested'[e] \subseteq requested \cup Nums(Elements(fresh))
    BY <2>1 DEF TypeOK
  <2>7. FlushResult(e, n, m)
    BY <1>1, <1>2, <1>5, <2>1, <2>5, <2>6 DEF FlushResult
  <2> QED
    BY <2>7
<1> HIDE DEF queue, requested
<1> QED
  BY <1>1, <1>6, <1>7 DEF SendIfNecessary, queue, requested

-----------------------------------------------------------------------------
(* The inductive invariant holds initially and is preserved.               *)

\* The inductive invariant holds initially.
LEMMA InitIndInv == Init => IndInv
<1> SUFFICES ASSUME Init PROVE IndInv
  OBVIOUS
<1>1. <<>> \in Seq(Data) /\ <<>> \in Seq(Chunk) /\ Len(<<>>) = 0
  BY EmptySeq
<1>2. \A f \in LossFactors : ClampLossFactor(f) \in 0..2
  BY ConstantsAssumption DEF ClampLossFactor
<1>3. TypeOK
  BY <1>1, <1>2 DEF Init, TypeOK
<1>4. ASSUME NEW e \in Ends
      PROVE  OutgoingInv(e) /\ QueueInv(e) /\ AckInv(e) /\ PeerInv(e)
  BY <1>1, PeerFacts DEF Init, OutgoingInv, QueueInv, AckInv, PeerInv, SentOnce, FirstUnacked
<1>5. NetInv /\ AnswerInv
  BY DEF Init, NetInv, AnswerInv, Ends
<1> QED
  BY <1>3, <1>4, <1>5 DEF IndInv

\* The numbers and lengths the invariants speak about are integers.
LEMMA Numbers ==
    ASSUME TypeOK, NEW e \in Ends
    PROVE  /\ currentPacketChunkNum[e] \in Nat
           /\ Len(outgoingData[e]) \in Nat
           /\ Len(newChunks[e]) \in Nat
           /\ Len(unackedChunks[e]) \in Nat
           /\ Len(sent[e]) \in Nat
           /\ Len(delivered[e]) \in Nat
           /\ lastInOrder[e] \in Int
           /\ lastInOrder[e] >= -1
           /\ SentOnce(e) \in Int
           /\ FirstUnacked(e) \in Int
           /\ outgoingData[e] \in Seq(Data)
           /\ newChunks[e] \in Seq(Chunk)
           /\ unackedChunks[e] \in Seq(Chunk)
           /\ sent[e] \in Seq(Data)
           /\ delivered[e] \in Seq(Data)
<1>1. /\ outgoingData[e] \in Seq(Data)
      /\ newChunks[e] \in Seq(Chunk)
      /\ unackedChunks[e] \in Seq(Chunk)
      /\ sent[e] \in Seq(Data)
      /\ delivered[e] \in Seq(Data)
      /\ currentPacketChunkNum[e] \in Nat
      /\ lastInOrder[e] \in Int
      /\ lastInOrder[e] >= -1
  BY DEF TypeOK
<1>2. /\ Len(outgoingData[e]) \in Nat
      /\ Len(newChunks[e]) \in Nat
      /\ Len(unackedChunks[e]) \in Nat
      /\ Len(sent[e]) \in Nat
      /\ Len(delivered[e]) \in Nat
  BY <1>1, LenProperties
<1> QED
  BY <1>1, <1>2 DEF SentOnce, FirstUnacked

\* How the numbers of one direction are ordered
LEMMA Bounds ==
    ASSUME IndInv, NEW e \in Ends
    PROVE  /\ FirstUnacked(e) \in Nat
           /\ SentOnce(e) \in Nat
           /\ currentPacketChunkNum[e] \in Nat
           /\ Len(outgoingData[e]) \in Nat
           /\ Len(newChunks[e]) \in Nat
           /\ Len(unackedChunks[e]) \in Nat
           /\ Len(sent[e]) \in Nat
           /\ lastInOrder[Peer(e)] \in Int
           /\ lastInOrder[Peer(e)] >= -1
           /\ Len(delivered[Peer(e)]) = lastInOrder[Peer(e)] + 1
           /\ FirstUnacked(e) <= lastInOrder[Peer(e)] + 1
           /\ lastInOrder[Peer(e)] + 1 <= SentOnce(e)
           /\ SentOnce(e) = FirstUnacked(e) + Len(unackedChunks[e])
           /\ currentPacketChunkNum[e] = SentOnce(e) + Len(newChunks[e])
           /\ Len(sent[e]) = currentPacketChunkNum[e] + Len(outgoingData[e])
           /\ SentOnce(e) <= Len(sent[e])
           /\ SentOnce(e) + Len(newChunks[e]) <= Len(sent[e])
           /\ FirstUnacked(e) + Len(unackedChunks[e]) <= Len(sent[e])
<1>1. /\ currentPacketChunkNum[e] \in Nat
      /\ Len(outgoingData[e]) \in Nat
      /\ Len(newChunks[e]) \in Nat
      /\ Len(unackedChunks[e]) \in Nat
      /\ Len(sent[e]) \in Nat
      /\ SentOnce(e) \in Int
      /\ FirstUnacked(e) \in Int
  BY Numbers DEF IndInv
<1>2. lastInOrder[Peer(e)] \in Int /\ lastInOrder[Peer(e)] >= -1
  BY Numbers, PeerFacts DEF IndInv
<1>3. OutgoingInv(e) /\ QueueInv(e) /\ AckInv(e) /\ PeerInv(e)
  BY DEF IndInv
<1>4. /\ SentOnce(e) = currentPacketChunkNum[e] - Len(newChunks[e])
      /\ FirstUnacked(e) = SentOnce(e) - Len(unackedChunks[e])
  BY DEF SentOnce, FirstUnacked
<1>5. /\ 0 <= FirstUnacked(e)
      /\ Len(delivered[Peer(e)]) = lastInOrder[Peer(e)] + 1
      /\ FirstUnacked(e) <= lastInOrder[Peer(e)] + 1
      /\ lastInOrder[Peer(e)] + 1 <= SentOnce(e)
      /\ Len(sent[e]) = currentPacketChunkNum[e] + Len(outgoingData[e])
  BY <1>3 DEF OutgoingInv, QueueInv, AckInv, PeerInv
<1>6. /\ SentOnce(e) = FirstUnacked(e) + Len(unackedChunks[e])
      /\ currentPacketChunkNum[e] = SentOnce(e) + Len(newChunks[e])
  BY <1>1, <1>4
<1>7. FirstUnacked(e) \in Nat /\ SentOnce(e) \in Nat
  BY <1>1, <1>5, <1>6
<1>8. currentPacketChunkNum[e] <= Len(sent[e])
  <2>1. Len(sent[e]) = currentPacketChunkNum[e] + Len(outgoingData[e])
    BY <1>5
  <2> QED
    BY <1>1, <2>1
<1>9. SentOnce(e) + Len(newChunks[e]) <= Len(sent[e])
  BY <1>6, <1>8
<1>10. SentOnce(e) <= Len(sent[e])
  BY <1>1, <1>7, <1>9
<1>11. FirstUnacked(e) + Len(unackedChunks[e]) <= Len(sent[e])
  BY <1>6, <1>10
<1> QED
  BY <1>1, <1>2, <1>5, <1>6, <1>7, <1>9, <1>10, <1>11

\* Submitting data extends sent and outgoingData alike.
LEMMA SendDataPreserves ==
    ASSUME IndInv, NEW e \in Ends, NEW d \in Data, SendData(e, d)
    PROVE  IndInv'
<1>0. TypeOK /\ NetInv /\ \A f \in Ends : OutgoingInv(f) /\ QueueInv(f) /\ AckInv(f) /\ PeerInv(f)
  BY DEF IndInv
<1>1. /\ outgoingData' = [outgoingData EXCEPT ![e] = Append(@, d)]
      /\ sent' = [sent EXCEPT ![e] = Append(@, d)]
      /\ UNCHANGED <<newChunks, unackedChunks, resendRequested, currentPacketChunkNum,
                     lastInOrder, waitingPackets, delivered, netLossFactor, muted,
                     closed, net>>
  BY DEF SendData, receiver, status
<1>2. /\ outgoingData'[e] = Append(outgoingData[e], d)
      /\ sent'[e] = Append(sent[e], d)
      /\ outgoingData[e] \in Seq(Data)
      /\ sent[e] \in Seq(Data)
  BY <1>0, <1>1 DEF TypeOK
<1>3. /\ Append(outgoingData[e], d) \in Seq(Data)
      /\ Len(Append(outgoingData[e], d)) = Len(outgoingData[e]) + 1
      /\ \A i \in 1..Len(outgoingData[e]) : Append(outgoingData[e], d)[i] = outgoingData[e][i]
      /\ Append(outgoingData[e], d)[Len(outgoingData[e]) + 1] = d
  BY <1>2, AppendProperties
<1>4. /\ Append(sent[e], d) \in Seq(Data)
      /\ Len(Append(sent[e], d)) = Len(sent[e]) + 1
      /\ \A i \in 1..Len(sent[e]) : Append(sent[e], d)[i] = sent[e][i]
      /\ Append(sent[e], d)[Len(sent[e]) + 1] = d
  BY <1>2, AppendProperties
<1>5. TypeOK'
  BY <1>0, <1>1, <1>2, <1>3, <1>4 DEF TypeOK
<1>6. \A f \in Ends : SentOnce(f)' = SentOnce(f) /\ FirstUnacked(f)' = FirstUnacked(f)
  BY <1>1 DEF SentOnce, FirstUnacked
<1>7. \A f \in Ends : \A i \in 1..Len(sent[f]) : sent'[f][i] = sent[f][i]
  BY <1>0, <1>1, <1>2, <1>4 DEF TypeOK
<1>8. ASSUME NEW f \in Ends, NEW n \in 0..(Len(sent[f]) - 1)
      PROVE  ChunkOf(f, n)' = ChunkOf(f, n)
  <2>1. n + 1 \in 1..Len(sent[f])
    BY Bounds
  <2> QED
    BY <2>1, <1>7 DEF ChunkOf
<1>9. ASSUME NEW f \in Ends, NEW c, SentChunk(f, c)
      PROVE  SentChunk(f, c)'
  <2>1. PICK n \in 0..(SentOnce(f) - 1) : c = ChunkOf(f, n)
    BY <1>9 DEF SentChunk
  <2>2. n \in 0..(Len(sent[f]) - 1)
    <3>1. SentOnce(f) \in Nat /\ Len(sent[f]) \in Nat /\ SentOnce(f) <= Len(sent[f])
      BY Bounds
    <3> QED
      BY <3>1
  <2> QED
    BY <2>1, <2>2, <1>6, <1>8 DEF SentChunk
<1>10. ASSUME NEW f \in Ends PROVE OutgoingInv(f)'
  <2>1. CASE f = e
    <3>1. /\ Len(outgoingData[e]) \in Nat
          /\ currentPacketChunkNum[e] \in Nat
          /\ Len(sent[e]) = currentPacketChunkNum[e] + Len(outgoingData[e])
      BY Bounds
    <3>2. \A i \in 1..Len(outgoingData[e]) :
             outgoingData[e][i] = sent[e][currentPacketChunkNum[e] + i]
      BY <1>0 DEF OutgoingInv
    <3>3. ASSUME NEW i \in 1..(Len(outgoingData[e]) + 1)
          PROVE  outgoingData'[e][i] = sent'[e][currentPacketChunkNum[e] + i]
      <4>1. CASE i = Len(outgoingData[e]) + 1
        <5>1. currentPacketChunkNum[e] + i = Len(sent[e]) + 1
          BY <4>1, <3>1
        <5> QED
          BY <4>1, <5>1, <1>2, <1>3, <1>4
      <4>2. CASE i # Len(outgoingData[e]) + 1
        <5>1. /\ i \in 1..Len(outgoingData[e])
              /\ currentPacketChunkNum[e] + i \in 1..Len(sent[e])
          BY <4>2, <3>1
        <5> QED
          BY <5>1, <3>2, <1>2, <1>3, <1>4
      <4> QED
        BY <4>1, <4>2
    <3>4. /\ Len(outgoingData'[e]) = Len(outgoingData[e]) + 1
          /\ Len(sent'[e]) = Len(sent[e]) + 1
          /\ currentPacketChunkNum'[e] = currentPacketChunkNum[e]
      BY <1>1, <1>2, <1>3, <1>4
    <3>5. Len(sent'[e]) = currentPacketChunkNum'[e] + Len(outgoingData'[e])
      BY <3>1, <3>4
    <3>6. \A i \in 1..Len(outgoingData'[e]) :
             outgoingData'[e][i] = sent'[e][currentPacketChunkNum'[e] + i]
      BY <3>3, <3>4, Zenon
    <3> QED
      BY <2>1, <3>5, <3>6, Zenon DEF OutgoingInv
  <2>2. CASE f # e
    BY <2>2, <1>0, <1>1 DEF OutgoingInv, TypeOK
  <2> QED
    BY <2>1, <2>2
<1>11. ASSUME NEW f \in Ends PROVE QueueInv(f)'
  <2>0. /\ FirstUnacked(f) \in Nat /\ SentOnce(f) \in Nat
        /\ Len(newChunks[f]) \in Nat /\ Len(unackedChunks[f]) \in Nat
        /\ Len(sent[f]) \in Nat
        /\ SentOnce(f) + Len(newChunks[f]) <= Len(sent[f])
        /\ FirstUnacked(f) + Len(unackedChunks[f]) <= Len(sent[f])
    BY Bounds
  <2>1. ASSUME NEW i \in 1..Len(newChunks[f])
        PROVE  newChunks[f][i] = ChunkOf(f, SentOnce(f) + i - 1)'
    <3>1. SentOnce(f) + i - 1 \in 0..(Len(sent[f]) - 1)
      <4>1. i \in Int /\ 1 <= i /\ i <= Len(newChunks[f])
        BY <2>0
      <4> QED
        BY <4>1, <2>0, SMTT(30)
    <3> QED
      BY <3>1, <1>0, <1>6, <1>8 DEF QueueInv
  <2>2. ASSUME NEW i \in 1..Len(unackedChunks[f])
        PROVE  unackedChunks[f][i] = ChunkOf(f, FirstUnacked(f) + i - 1)'
    <3>1. FirstUnacked(f) + i - 1 \in 0..(Len(sent[f]) - 1)
      BY <2>0, SMTT(30)
    <3> QED
      BY <3>1, <1>0, <1>6, <1>8 DEF QueueInv
  <2> QED
    BY <2>1, <2>2, <1>0, <1>1, <1>6 DEF QueueInv
<1>12. ASSUME NEW f \in Ends PROVE AckInv(f)'
  BY <1>0, <1>1, <1>6 DEF AckInv
<1>13. ASSUME NEW f \in Ends PROVE PeerInv(f)'
  <2>1. \A i \in 1..Len(delivered[Peer(f)]) : i \in 1..Len(sent[f])
    <3>1. /\ SentOnce(f) \in Nat /\ Len(sent[f]) \in Nat /\ SentOnce(f) <= Len(sent[f])
          /\ lastInOrder[Peer(f)] \in Int
          /\ Len(delivered[Peer(f)]) = lastInOrder[Peer(f)] + 1
          /\ lastInOrder[Peer(f)] + 1 <= SentOnce(f)
      BY Bounds
    <3> QED
      BY <3>1
  <2> QED
    BY <2>1, <1>0, <1>1, <1>7, <1>9 DEF PeerInv
<1>14. NetInv'
  BY <1>0, <1>1, <1>9 DEF NetInv, Reattempt, TypeOK, Packet
<1>15. AnswerInv'
  <2>1. lastInOrder' = lastInOrder
    BY DEF SendData, receiver
  <2>2. CASE e = "server"
    BY <2>1, <2>2 DEF SendData, Exists, AnswerInv
  <2>3. CASE e # "server"
    <3>1. sent'["server"] = sent["server"]
      BY <2>3 DEF SendData, IndInv, TypeOK, Ends
    <3> QED
      BY <2>1, <3>1 DEF IndInv, AnswerInv
  <2> QED
    BY <2>2, <2>3
<1> QED
  BY <1>5, <1>10, <1>11, <1>12, <1>13, <1>14, <1>15 DEF IndInv

\* A flush appends consecutive chunks to newChunks and moves chunks from there
\* to unackedChunks before the network can know them.
LEMMA FlushPreserves ==
    ASSUME IndInv, NEW e \in Ends,
           NEW n \in 0..Len(outgoingData[e]), NEW m \in 0..Len(Queue(e, n)),
           FlushResult(e, n, m),
           netLossFactor' \in [Ends -> 0..2],
           muted' \in [Ends -> BOOLEAN],
           closed' \in [Ends -> BOOLEAN]
    PROVE  IndInv'
<1> DEFINE queue == Queue(e, n)
           fresh == SubSeq(queue, 1, m)
           rest  == SubSeq(queue, m + 1, Len(queue))
           later == SubSeq(outgoingData[e], n + 1, Len(outgoingData[e]))
           more  == unackedChunks[e] \o fresh
<1>0. TypeOK /\ NetInv /\ \A f \in Ends : OutgoingInv(f) /\ QueueInv(f) /\ AckInv(f) /\ PeerInv(f)
  BY DEF IndInv
<1>1. /\ sent' = sent /\ delivered' = delivered
      /\ lastInOrder' = lastInOrder /\ waitingPackets' = waitingPackets
  BY DEF FlushResult, receiver
<1>2. /\ outgoingData' = [outgoingData EXCEPT ![e] = later]
      /\ currentPacketChunkNum' = [currentPacketChunkNum EXCEPT ![e] = @ + n]
      /\ newChunks' = [newChunks EXCEPT ![e] = rest]
      /\ unackedChunks' = [unackedChunks EXCEPT ![e] = more]
  BY DEF FlushResult
<1>3. /\ outgoingData'[e] = later
      /\ currentPacketChunkNum'[e] = currentPacketChunkNum[e] + n
      /\ newChunks'[e] = rest
      /\ unackedChunks'[e] = more
  BY <1>0, <1>2 DEF TypeOK
<1>4. ASSUME NEW f \in Ends, f # e
      PROVE  /\ outgoingData'[f] = outgoingData[f]
             /\ currentPacketChunkNum'[f] = currentPacketChunkNum[f]
             /\ newChunks'[f] = newChunks[f]
             /\ unackedChunks'[f] = unackedChunks[f]
             /\ resendRequested'[f] = resendRequested[f]
  BY <1>0, <1>2, <1>4 DEF TypeOK, FlushResult
<1>5. /\ Len(outgoingData[e]) \in Nat /\ n \in Nat /\ m \in Nat
      /\ Len(newChunks[e]) \in Nat /\ Len(unackedChunks[e]) \in Nat
      /\ currentPacketChunkNum[e] \in Nat
      /\ SentOnce(e) \in Nat /\ FirstUnacked(e) \in Nat
  <2>1. /\ Len(outgoingData[e]) \in Nat
        /\ Len(newChunks[e]) \in Nat /\ Len(unackedChunks[e]) \in Nat
        /\ currentPacketChunkNum[e] \in Nat
        /\ SentOnce(e) \in Nat /\ FirstUnacked(e) \in Nat
    BY Bounds
  <2>2. n \in Nat
    BY <2>1
  <2>3. Len(queue) = Len(newChunks[e]) + n
    BY <1>0, QueueFacts
  <2>4. m \in Nat
    BY <2>1, <2>2, <2>3
  <2> QED
    BY <2>1, <2>2, <2>4
<1>25. outgoingData[e] \in Seq(Data) /\ unackedChunks[e] \in Seq(Chunk)
  BY <1>0 DEF TypeOK
<1>6. queue \in Seq(Chunk) /\ Len(queue) = Len(newChunks[e]) + n /\ Len(queue) \in Nat
  <2>1. queue \in Seq(Chunk) /\ Len(queue) = Len(newChunks[e]) + n
    BY <1>0, QueueFacts
  <2> QED
    BY <2>1, LenProperties
<1>7. /\ later \in Seq(Data)
      /\ Len(later) = Len(outgoingData[e]) - n
      /\ \A i \in 1..(Len(outgoingData[e]) - n) : later[i] = outgoingData[e][n + i]
  BY <1>25, SuffixFacts
<1>8. /\ rest \in Seq(Chunk)
      /\ Len(rest) = Len(queue) - m
      /\ \A i \in 1..(Len(queue) - m) : rest[i] = queue[m + i]
  <2> HIDE DEF queue
  <2> QED
    BY <1>6, SuffixFacts DEF queue
<1>9. /\ fresh \in Seq(Chunk)
      /\ Len(fresh) = m
      /\ \A i \in 1..m : fresh[i] = queue[i]
  <2> HIDE DEF queue
  <2> QED
    BY <1>6, PrefixFacts DEF queue
<1>10. /\ more \in Seq(Chunk)
       /\ Len(more) = Len(unackedChunks[e]) + m
       /\ \A i \in 1..(Len(unackedChunks[e]) + m) : more[i] =
             IF i <= Len(unackedChunks[e]) THEN unackedChunks[e][i]
             ELSE fresh[i - Len(unackedChunks[e])]
  <2> HIDE DEF fresh
  <2>1. /\ more \in Seq(Chunk)
        /\ Len(more) = Len(unackedChunks[e]) + Len(fresh)
        /\ \A i \in 1..(Len(unackedChunks[e]) + Len(fresh)) : more[i] =
             IF i <= Len(unackedChunks[e]) THEN unackedChunks[e][i]
             ELSE fresh[i - Len(unackedChunks[e])]
    BY <1>25, <1>9, ConcatProperties, Zenon
  <2> QED
    BY <1>9, <2>1, Zenon
<1> HIDE DEF queue, fresh, rest, later, more
<1>11. ASSUME NEW i \in 1..Len(queue)
       PROVE  queue[i] = ChunkOf(e, SentOnce(e) + i - 1)
  <2>1. CASE i <= Len(newChunks[e])
    <3>1. queue[i] = newChunks[e][i] /\ i \in 1..Len(newChunks[e])
      BY <2>1, <1>0, <1>5, <1>6, QueueFacts DEF queue
    <3> QED
      BY <3>1, <1>0 DEF QueueInv
  <2>2. CASE i > Len(newChunks[e])
    <3> DEFINE j == i - Len(newChunks[e])
    <3>1. j \in 1..n
      <4>1. i \in Int /\ i <= Len(newChunks[e]) + n /\ Len(newChunks[e]) < i
        BY <2>2, <1>5, <1>6
      <4> QED
        BY <4>1, <1>5
    <3>6. j \in 1..Len(outgoingData[e])
      <4>1. n <= Len(outgoingData[e]) /\ n \in Int /\ Len(outgoingData[e]) \in Int
        BY <1>5
      <4> HIDE DEF j
      <4> QED
        BY <4>1, <3>1
    <3>7. SentOnce(e) = currentPacketChunkNum[e] - Len(newChunks[e])
      BY DEF SentOnce
    <3>8. currentPacketChunkNum[e] + j = (SentOnce(e) + i - 1) + 1
      <4>1. i \in Int
        BY <1>6
      <4>2. currentPacketChunkNum[e] \in Int /\ Len(newChunks[e]) \in Int
        BY <1>5
      <4>3. currentPacketChunkNum[e] + (i - Len(newChunks[e]))
               = (currentPacketChunkNum[e] - Len(newChunks[e]) + i - 1) + 1
        BY <4>1, <4>2
      <4> QED
        BY <4>3, <3>7
    <3>2. queue[i] = CreateChunks(e, n)[j]
      <4>1. \A k \in 1..(Len(newChunks[e]) + n) : Queue(e, n)[k] =
              IF k <= Len(newChunks[e]) THEN newChunks[e][k]
              ELSE CreateChunks(e, n)[k - Len(newChunks[e])]
        BY <1>0, QueueFacts, Zenon
      <4>2. i \in 1..(Len(newChunks[e]) + n) /\ ~(i <= Len(newChunks[e]))
        BY <2>2, <1>5, <1>6
      <4>3. Queue(e, n)[i] = CreateChunks(e, n)[i - Len(newChunks[e])]
        BY <4>1, <4>2, Zenon
      <4> QED
        BY <4>3 DEF queue
    <3>3. CreateChunks(e, n)[j] =
             [num |-> currentPacketChunkNum[e] + j - 1, data |-> outgoingData[e][j]]
      BY <3>1 DEF CreateChunks
    <3>4. outgoingData[e][j] = sent[e][currentPacketChunkNum[e] + j]
      BY <3>6, <1>0 DEF OutgoingInv
    <3>5. currentPacketChunkNum[e] + j - 1 = SentOnce(e) + i - 1
      <4>1. j \in Int /\ i \in Int /\ currentPacketChunkNum[e] \in Int /\ SentOnce(e) \in Int
        BY <1>5, <1>6, <3>1
      <4> HIDE DEF j
      <4> QED
        BY <4>1, <3>8, SMTT(30)
    <3> HIDE DEF j
    <3> QED
      BY <3>2, <3>3, <3>4, <3>5, <3>8 DEF ChunkOf
  <2> QED
    BY <2>1, <2>2, <1>5, <1>6
<1>12. SentOnce(e)' = SentOnce(e) + m /\ FirstUnacked(e)' = FirstUnacked(e)
  <2>1. SentOnce(e)' = (currentPacketChunkNum[e] + n) - (Len(newChunks[e]) + n - m)
    BY <1>3, <1>6, <1>8 DEF SentOnce
  <2>2. SentOnce(e) = currentPacketChunkNum[e] - Len(newChunks[e])
    BY DEF SentOnce
  <2>3. SentOnce(e)' = SentOnce(e) + m
    BY <2>1, <2>2, <1>5
  <2>4. FirstUnacked(e)' = SentOnce(e)' - (Len(unackedChunks[e]) + m)
    BY <1>3, <1>10 DEF FirstUnacked
  <2>5. FirstUnacked(e) = SentOnce(e) - Len(unackedChunks[e])
    BY DEF FirstUnacked
  <2>6. FirstUnacked(e)' = FirstUnacked(e)
    <3>1. FirstUnacked(e)' = (SentOnce(e) + m) - (Len(unackedChunks[e]) + m)
      BY <2>3, <2>4
    <3> QED
      BY <3>1, <2>5, <1>5
  <2> QED
    BY <2>3, <2>6
<1>13. ASSUME NEW f \in Ends, f # e
       PROVE  SentOnce(f)' = SentOnce(f) /\ FirstUnacked(f)' = FirstUnacked(f)
  BY <1>4, <1>13 DEF SentOnce, FirstUnacked
<1>14. \A f \in Ends : \A k : ChunkOf(f, k)' = ChunkOf(f, k)
  BY <1>1 DEF ChunkOf
<1>15. ASSUME NEW f \in Ends, NEW c, SentChunk(f, c)
       PROVE  SentChunk(f, c)'
  <2>1. PICK k \in 0..(SentOnce(f) - 1) : c = ChunkOf(f, k)
    BY <1>15 DEF SentChunk
  <2>2. CASE f = e
    <3>1. k \in 0..((SentOnce(e) + m) - 1)
      BY <2>2, <1>5
    <3> QED
      BY <2>1, <2>2, <3>1, <1>12, <1>14 DEF SentChunk
  <2>3. CASE f # e
    BY <2>1, <2>3, <1>13, <1>14 DEF SentChunk
  <2> QED
    BY <2>2, <2>3
<1>16. ASSUME NEW k \in 0..((SentOnce(e) + m) - 1), NEW c, c = ChunkOf(e, k)
       PROVE  SentChunk(e, c)' /\ c.num = k
  <2>1. c.num = k
    BY <1>16 DEF ChunkOf
  <2>2. k \in 0..(SentOnce(e)' - 1) /\ c = ChunkOf(e, k)'
    BY <1>12, <1>14, <1>16
  <2> QED
    BY <2>1, <2>2 DEF SentChunk
<1>17. ASSUME NEW c \in Elements(unackedChunks[e]) \cup Elements(fresh)
       PROVE  SentChunk(e, c)' /\ c.num \in FirstUnacked(e)..(SentOnce(e) + m - 1)
  <2>1. CASE c \in Elements(unackedChunks[e])
    <3>1. PICK i \in 1..Len(unackedChunks[e]) : c = unackedChunks[e][i]
      BY <2>1, <1>25, LenProperties DEF Elements
    <3>2. c = ChunkOf(e, FirstUnacked(e) + i - 1)
      BY <3>1, <1>0 DEF QueueInv
    <3> DEFINE k == FirstUnacked(e) + i - 1
    <3>3. FirstUnacked(e) = SentOnce(e) - Len(unackedChunks[e])
      BY DEF FirstUnacked
    <3>4. k \in FirstUnacked(e)..(SentOnce(e) + m - 1)
      <4>1. i \in Int /\ 1 <= i /\ i <= Len(unackedChunks[e])
        BY <1>5
      <4>2. k >= FirstUnacked(e)
        BY <4>1, <1>5
      <4>3. k <= SentOnce(e) + m - 1
        BY <4>1, <3>3, <1>5, SMTT(30)
      <4> QED
        BY <4>1, <4>2, <4>3, <1>5
    <3>5. k \in 0..((SentOnce(e) + m) - 1)
      BY <3>4, <1>5, SMTT(30)
    <3>6. c = ChunkOf(e, k)
      BY <3>2
    <3> HIDE DEF k
    <3> QED
      BY <3>4, <3>5, <3>6, <1>16
  <2>2. CASE c \in Elements(fresh)
    <3>1. PICK i \in 1..m : c = fresh[i]
      BY <2>2, <1>9, LenProperties DEF Elements
    <3>2. i \in 1..Len(queue)
      BY <1>5, <1>6 DEF queue
    <3>3. c = ChunkOf(e, SentOnce(e) + i - 1)
      BY <3>1, <3>2, <1>9, <1>11
    <3>4. FirstUnacked(e) <= SentOnce(e)
      BY <1>5 DEF FirstUnacked
    <3> DEFINE k == SentOnce(e) + i - 1
    <3>5. k \in FirstUnacked(e)..(SentOnce(e) + m - 1) /\ k \in 0..((SentOnce(e) + m) - 1)
      BY <3>4, <1>5
    <3>6. c = ChunkOf(e, k)
      BY <3>3
    <3> HIDE DEF k
    <3> QED
      BY <3>5, <3>6, <1>16
  <2> QED
    BY <2>1, <2>2
<1>18. resendRequested'[e] \subseteq FirstUnacked(e)..(SentOnce(e) + m - 1)
  <2>1. resendRequested[e] \subseteq FirstUnacked(e)..(SentOnce(e) + m - 1)
    <3>1. resendRequested[e] \subseteq FirstUnacked(e)..(SentOnce(e) - 1)
      BY <1>0 DEF QueueInv
    <3> QED
      BY <3>1, <1>5
  <2>2. /\ Nums(Elements(unackedChunks[e])) \subseteq FirstUnacked(e)..(SentOnce(e) + m - 1)
        /\ Nums(Elements(fresh)) \subseteq FirstUnacked(e)..(SentOnce(e) + m - 1)
    BY <1>17 DEF Nums
  <2> QED
    BY <2>1, <2>2 DEF FlushResult, fresh, queue
<1>19. TypeOK'
  <2>1. net' \subseteq Packet
    BY <1>0 DEF FlushResult, TypeOK
  <2>2. resendRequested' \in [Ends -> SUBSET Nat]
    <3>1. resendRequested'[e] \subseteq Nat
      BY <1>5, <1>18
    <3> QED
      BY <1>0, <3>1 DEF FlushResult, TypeOK
  <2>3. outgoingData' \in [Ends -> Seq(Data)] /\ newChunks' \in [Ends -> Seq(Chunk)]
    BY <1>0, <1>2, <1>7, <1>8 DEF TypeOK
  <2>4. unackedChunks' \in [Ends -> Seq(Chunk)] /\ currentPacketChunkNum' \in [Ends -> Nat]
    BY <1>0, <1>2, <1>5, <1>10 DEF TypeOK
  <2> QED
    BY <2>1, <2>2, <2>3, <2>4, <1>0, <1>1 DEF TypeOK
<1>20. OutgoingInv(e)'
  <2>1. ASSUME NEW i \in 1..(Len(outgoingData[e]) - n)
        PROVE  later[i] = sent[e][(currentPacketChunkNum[e] + n) + i]
    <3>1. n + i \in 1..Len(outgoingData[e])
      BY <1>5
    <3>2. outgoingData[e][n + i] = sent[e][currentPacketChunkNum[e] + (n + i)]
      BY <3>1, <1>0 DEF OutgoingInv
    <3>3. currentPacketChunkNum[e] + (n + i) = (currentPacketChunkNum[e] + n) + i
      BY <1>5
    <3> QED
      BY <3>2, <3>3, <1>7
  <2>2. Len(sent[e]) = (currentPacketChunkNum[e] + n) + (Len(outgoingData[e]) - n)
    BY <1>0, <1>5 DEF OutgoingInv
  <2> QED
    BY <2>1, <2>2, <1>1, <1>3, <1>7 DEF OutgoingInv
<1>21. QueueInv(e)'
  <2>1. ASSUME NEW i \in 1..(Len(queue) - m)
        PROVE  rest[i] = ChunkOf(e, (SentOnce(e) + m) + i - 1)
    <3>1. m + i \in 1..Len(queue) /\ SentOnce(e) + (m + i) - 1 = (SentOnce(e) + m) + i - 1
      BY <1>5, <1>6
    <3> QED
      BY <3>1, <1>8, <1>11
  <2>2. ASSUME NEW i \in 1..(Len(unackedChunks[e]) + m)
        PROVE  more[i] = ChunkOf(e, FirstUnacked(e) + i - 1)
    <3>1. CASE i <= Len(unackedChunks[e])
      <4>1. i \in 1..Len(unackedChunks[e]) /\ more[i] = unackedChunks[e][i]
        BY <3>1, <1>5, <1>10
      <4> QED
        BY <4>1, <1>0 DEF QueueInv
    <3>2. CASE i > Len(unackedChunks[e])
      <4> DEFINE j == i - Len(unackedChunks[e])
      <4>0. m <= Len(queue)
        BY DEF queue
      <4>1. j \in 1..m /\ j \in 1..Len(queue)
        <5>1. i \in Int /\ i <= Len(unackedChunks[e]) + m
          BY <1>5
        <5>2. j \in Int /\ 1 <= j /\ j <= m
          BY <5>1, <3>2, <1>5
        <5> HIDE DEF j
        <5> QED
          BY <5>2, <4>0, <1>5, <1>6
      <4>2. SentOnce(e) + j - 1 = FirstUnacked(e) + i - 1
        BY <1>5 DEF FirstUnacked
      <4>3. more[i] = queue[j]
        <5>1. more[i] = fresh[j]
          BY <3>2, <1>5, <1>10
        <5> HIDE DEF j
        <5> QED
          BY <4>1, <5>1, <1>9
      <4> HIDE DEF j
      <4> QED
        BY <4>1, <4>2, <4>3, <1>11
    <3> QED
      BY <3>1, <3>2, <1>5
  <2> QED
    <3>1. \A i \in 1..Len(rest) : rest[i] = ChunkOf(e, (SentOnce(e) + m) + i - 1)
      BY <2>1, <1>8
    <3>2. \A i \in 1..Len(more) : more[i] = ChunkOf(e, FirstUnacked(e) + i - 1)
      BY <2>2, <1>10
    <3>3. \A i \in 1..Len(newChunks'[e]) : newChunks'[e][i] = ChunkOf(e, SentOnce(e) + i - 1)'
      BY <3>1, <1>3, <1>12, <1>14
    <3>4. \A i \in 1..Len(unackedChunks'[e]) :
             unackedChunks'[e][i] = ChunkOf(e, FirstUnacked(e) + i - 1)'
      BY <3>2, <1>3, <1>12, <1>14
    <3>5. 0 <= FirstUnacked(e)'
      BY <1>5, <1>12
    <3>6. resendRequested'[e] \subseteq FirstUnacked(e)'..(SentOnce(e)' - 1)
      <4>1. SentOnce(e)' - 1 = SentOnce(e) + m - 1
        BY <1>5, <1>12
      <4> QED
        BY <4>1, <1>12, <1>18
    <3> QED
      BY <3>3, <3>4, <3>5, <3>6 DEF QueueInv
<1>22. AckInv(e)'
  <2>1. /\ FirstUnacked(e) <= lastInOrder[Peer(e)] + 1
        /\ lastInOrder[Peer(e)] + 1 <= SentOnce(e)
        /\ lastInOrder[Peer(e)] \in Int
    BY Bounds
  <2>2. lastInOrder[Peer(e)] + 1 <= SentOnce(e) + m
    BY <2>1, <1>5
  <2> QED
    BY <2>1, <2>2, <1>1, <1>12 DEF AckInv
<1>23. PeerInv(e)'
  BY <1>0, <1>1, <1>15 DEF PeerInv
<1>24. ASSUME NEW f \in Ends, f # e
       PROVE  OutgoingInv(f)' /\ QueueInv(f)' /\ AckInv(f)' /\ PeerInv(f)'
  <2>1. OutgoingInv(f)'
    BY <1>0, <1>1, <1>4, <1>24 DEF OutgoingInv
  <2>2. QueueInv(f)'
    <3>1. \A k : ChunkOf(f, k)' = ChunkOf(f, k)
      BY <1>14
    <3>2. /\ \A i \in 1..Len(newChunks[f]) :
                newChunks[f][i] = ChunkOf(f, SentOnce(f) + i - 1)'
          /\ \A i \in 1..Len(unackedChunks[f]) :
                unackedChunks[f][i] = ChunkOf(f, FirstUnacked(f) + i - 1)'
      BY <3>1, <1>0, <1>13, <1>24 DEF QueueInv
    <3> QED
      BY <3>2, <1>0, <1>4, <1>13, <1>24 DEF QueueInv
  <2>3. AckInv(f)'
    BY <1>0, <1>1, <1>13, <1>24 DEF AckInv
  <2>4. PeerInv(f)'
    BY <1>0, <1>1, <1>15 DEF PeerInv
  <2> QED
    BY <2>1, <2>2, <2>3, <2>4
<1>27. NetInv'
  <2>0. \A f, c : Reattempt(f, c)' = Reattempt(f, c)
    BY <1>1 DEF Reattempt
  <2>1. ASSUME NEW p \in net', p \in net
        PROVE  /\ p.lastContinuous <= lastInOrder[p.src]
               /\ \A c \in p.chunks : SentChunk(p.src, c)' \/ Reattempt(p.src, c)
    BY <2>1, <1>0, <1>15 DEF NetInv, TypeOK, Packet
  <2>2. ASSUME NEW p \in net', p \notin net
        PROVE  p.lastContinuous <= lastInOrder[p.src] /\ \A c \in p.chunks : SentChunk(p.src, c)'
    <3>1. /\ p.src = e
          /\ p.lastContinuous = lastInOrder[e]
          /\ p.chunks \subseteq Elements(unackedChunks[e]) \cup Elements(fresh)
      BY <2>2 DEF FlushResult, fresh, queue
    <3>2. lastInOrder[e] \in Int
      BY <1>0 DEF TypeOK
    <3> QED
      BY <3>1, <3>2, <1>17
  <2> QED
    BY <2>0, <2>1, <2>2, <1>1 DEF NetInv
<1>26. AnswerInv'
  BY <1>1 DEF IndInv, AnswerInv
<1> QED
  BY <1>19, <1>20, <1>21, <1>22, <1>23, <1>24, <1>27, <1>26 DEF IndInv

\* Acknowledgements pop only what the peer has processed, and NAKs request
\* only what remains.
LEMMA HandleAcksEffect ==
    ASSUME IndInv, NEW e \in Ends, NEW p \in net, p.src = Peer(e), HandleAcks(e, p)
    PROVE  \E n \in 0..Len(unackedChunks[e]) :
             /\ unackedChunks' = [unackedChunks EXCEPT ![e] =
                                     SubSeq(@, n + 1, Len(@))]
             /\ \E r \in SUBSET ((FirstUnacked(e) + n)..(SentOnce(e) - 1)) :
                   resendRequested' = [resendRequested EXCEPT ![e] = r]
             /\ FirstUnacked(e) + n <= lastInOrder[Peer(e)] + 1
<1> DEFINE Rest(n) == SubSeq(unackedChunks[e], n + 1, Len(unackedChunks[e]))
<1>1. PICK n \in 0..Len(unackedChunks[e]) :
        /\ Pops(unackedChunks[e], p.lastContinuous, n)
        /\ unackedChunks' = [unackedChunks EXCEPT ![e] = Rest(n)]
        /\ resendRequested' = [resendRequested EXCEPT ![e] =
               ({r \in @ : p.lastContinuous < r} \cup NakRequested(Rest(n), p))
                   \ NakSkipped(Rest(n), p)]
  BY DEF HandleAcks
<1>2. /\ Len(unackedChunks[e]) \in Nat /\ FirstUnacked(e) \in Nat /\ SentOnce(e) \in Nat
      /\ lastInOrder[Peer(e)] \in Int
      /\ FirstUnacked(e) <= lastInOrder[Peer(e)] + 1
  BY Bounds
<1>3. unackedChunks[e] \in Seq(Chunk) /\ p.lastContinuous \in Int
  BY DEF IndInv, TypeOK, Packet
<1>4. p.lastContinuous <= lastInOrder[Peer(e)]
  BY DEF IndInv, NetInv
<1>5. \A i \in 1..Len(unackedChunks[e]) : unackedChunks[e][i].num = FirstUnacked(e) + i - 1
  <2>1. \A i \in 1..Len(unackedChunks[e]) :
           unackedChunks[e][i] = ChunkOf(e, FirstUnacked(e) + i - 1)
    <3>1. QueueInv(e)
      BY DEF IndInv
    <3> QED
      BY <3>1 DEF QueueInv
  <2>2. ASSUME NEW i \in 1..Len(unackedChunks[e])
        PROVE  unackedChunks[e][i].num = FirstUnacked(e) + i - 1
    <3>1. unackedChunks[e][i] = ChunkOf(e, FirstUnacked(e) + i - 1)
      BY <2>1
    <3>2. ChunkOf(e, FirstUnacked(e) + i - 1).num = FirstUnacked(e) + i - 1
      BY DEF ChunkOf
    <3> QED
      BY <3>1, <3>2, Zenon
  <2> QED
    BY <2>2
<1>6. n > 0 => FirstUnacked(e) + n - 1 <= p.lastContinuous
  <2> SUFFICES ASSUME n > 0 PROVE FirstUnacked(e) + n - 1 <= p.lastContinuous
    OBVIOUS
  <2>1. n \in 1..n /\ n \in 1..Len(unackedChunks[e])
    BY <1>2
  <2>2. unackedChunks[e][n].num <= p.lastContinuous
    BY <2>1, <1>1 DEF Pops
  <2> QED
    BY <2>1, <2>2, <1>5
<1>7. FirstUnacked(e) + n <= lastInOrder[Peer(e)] + 1
  <2>1. CASE n = 0
    BY <2>1, <1>2
  <2>2. CASE n > 0
    BY <2>2, <1>2, <1>3, <1>4, <1>6
  <2> QED
    BY <2>1, <2>2, <1>2
<1>8. ASSUME NEW r \in resendRequested[e], p.lastContinuous < r
      PROVE  r \in (FirstUnacked(e) + n)..(SentOnce(e) - 1)
  <2>1. r \in FirstUnacked(e)..(SentOnce(e) - 1)
    BY DEF IndInv, QueueInv
  <2>2. CASE n = 0
    BY <2>1, <2>2, <1>2
  <2>3. CASE n > 0
    <3>1. FirstUnacked(e) + n - 1 < r
      BY <2>1, <2>3, <1>2, <1>3, <1>6, <1>8
    <3> QED
      BY <2>1, <3>1, <1>2
  <2> QED
    BY <2>2, <2>3, <1>2
<1>9. ASSUME NEW r \in NakRequested(Rest(n), p)
      PROVE  r \in (FirstUnacked(e) + n)..(SentOnce(e) - 1)
  <2>1. /\ Len(Rest(n)) = Len(unackedChunks[e]) - n
        /\ \A i \in 1..(Len(unackedChunks[e]) - n) : Rest(n)[i] = unackedChunks[e][n + i]
    BY <1>3, SuffixFacts
  <2>2. PICK pos \in 0..((Len(unackedChunks[e]) - n) - 1) : r = Rest(n)[pos + 1].num
    BY <2>1 DEF NakRequested
  <2>3. pos + 1 \in 1..(Len(unackedChunks[e]) - n) /\ n + (pos + 1) \in 1..Len(unackedChunks[e])
    BY <1>2
  <2>4. r = FirstUnacked(e) + (n + (pos + 1)) - 1
    BY <2>1, <2>2, <2>3, <1>5
  <2>5. SentOnce(e) = FirstUnacked(e) + Len(unackedChunks[e])
    BY Bounds
  <2>6. r >= FirstUnacked(e) + n
    BY <2>4, <1>2
  <2>7. r <= SentOnce(e) - 1
    <3>1. pos \in Int /\ pos + 1 <= Len(unackedChunks[e]) - n
      BY <1>2
    <3>2. r <= (FirstUnacked(e) + Len(unackedChunks[e])) - 1
      BY <3>1, <2>4, <1>2
    <3> QED
      BY <3>2, <2>5
  <2>8. r \in Int
    BY <2>4, <1>2
  <2> QED
    BY <2>6, <2>7, <2>8, <1>2
<1> DEFINE asked == ({r \in resendRequested[e] : p.lastContinuous < r}
                        \cup NakRequested(Rest(n), p)) \ NakSkipped(Rest(n), p)
<1>10. asked \in SUBSET ((FirstUnacked(e) + n)..(SentOnce(e) - 1))
  <2> HIDE DEF Rest
  <2> QED
    BY <1>8, <1>9
<1>11. resendRequested' = [resendRequested EXCEPT ![e] = asked]
  BY <1>1
<1> QED
  BY <1>1, <1>7, <1>10, <1>11

\* What is processed are chunks the peer has sent, in order.
LEMMA HandleChunksEffect ==
    ASSUME IndInv, NEW e \in Ends, NEW p \in net, p.src = Peer(e), HandleChunks(e, p)
    PROVE  \E k \in Int, W \in SUBSET Chunk, D \in Seq(Data) :
             /\ lastInOrder' = [lastInOrder EXCEPT ![e] = k]
             /\ waitingPackets' = [waitingPackets EXCEPT ![e] = W]
             /\ delivered' = [delivered EXCEPT ![e] = D]
             /\ lastInOrder[e] <= k
             /\ k + 1 <= SentOnce(Peer(e))
             /\ \A c \in W : SentChunk(Peer(e), c) /\ k < c.num
             /\ Len(D) = k + 1
             /\ \A i \in 1..(k + 1) : D[i] = sent[Peer(e)][i]
<1> DEFINE o == Peer(e)
           waiting == waitingPackets[e] \cup NewArrivals(e, p)
           last == lastInOrder[e]
           Datum(i) == (CHOOSE c \in waiting : c.num = last + i).data
<1>1. PICK k \in last..(last + Cardinality(waiting)) :
        /\ InOrderUpTo(waiting, last + 1, k)
        /\ lastInOrder' = [lastInOrder EXCEPT ![e] = k]
        /\ waitingPackets' = [waitingPackets EXCEPT ![e] = {c \in waiting : k < c.num}]
        /\ delivered' = [delivered EXCEPT ![e] = @ \o [i \in 1..(k - last) |-> Datum(i)]]
  BY DEF HandleChunks
<1>2. /\ o \in Ends /\ Peer(o) = e
  BY PeerFacts
<1>3. /\ last \in Int /\ last >= -1
      /\ SentOnce(o) \in Nat /\ Len(sent[o]) \in Nat
      /\ SentOnce(o) <= Len(sent[o])
      /\ last + 1 <= SentOnce(o)
      /\ Len(delivered[e]) = last + 1
  <2>1. /\ lastInOrder[Peer(o)] \in Int /\ lastInOrder[Peer(o)] >= -1
        /\ SentOnce(o) \in Nat /\ Len(sent[o]) \in Nat
        /\ SentOnce(o) <= Len(sent[o])
        /\ lastInOrder[Peer(o)] + 1 <= SentOnce(o)
        /\ Len(delivered[Peer(o)]) = lastInOrder[Peer(o)] + 1
    <3> HIDE DEF o
    <3> QED
      BY <1>2, Bounds
  <2> QED
    BY <1>2, <2>1
<1>4. k \in Int /\ last <= k
  BY <1>3
<1>5. /\ waitingPackets[e] \subseteq Chunk /\ p.chunks \subseteq Chunk
      /\ delivered[e] \in Seq(Data) /\ sent[o] \in Seq(Data)
  BY <1>2 DEF IndInv, TypeOK, Packet
<1>6. ASSUME NEW c \in waiting
      PROVE  SentChunk(o, c) /\ c \in Chunk
  <2>1. CASE c \in waitingPackets[e]
    <3>1. PeerInv(o)
      BY <1>2 DEF IndInv
    <3> QED
      BY <2>1, <3>1, <1>2, <1>5 DEF PeerInv
  <2>2. CASE c \in NewArrivals(e, p)
    <3>1. c \in p.chunks /\ lastInOrder[e] < c.num
      BY <2>2 DEF NewArrivals
    <3>2. SentChunk(o, c) \/ Reattempt(o, c)
      BY <3>1 DEF IndInv, NetInv
    <3>3. ~Reattempt(o, c)
      <4>1. ASSUME Reattempt(o, c) PROVE FALSE
        <5>1. o = "client" /\ c.num = 0 /\ lastInOrder["server"] >= 0
          BY <4>1 DEF Reattempt
        <5>2. e = "server"
          BY <5>1, <1>2 DEF Peer
        <5> QED
          BY <3>1, <5>1, <5>2, <1>3
      <4> QED
        BY <4>1
    <3> QED
      BY <3>1, <3>2, <3>3, <1>5
  <2> QED
    BY <2>1, <2>2
<1> HIDE DEF o, waiting, last
<1>7. ASSUME NEW n \in (last + 1)..k
      PROVE  /\ n < SentOnce(o)
             /\ \A c \in waiting : c.num = n => c.data = sent[o][n + 1]
             /\ \E c \in waiting : c.num = n
  <2>1. PICK c \in waiting : c.num = n
    BY <1>1 DEF InOrderUpTo, Nums
  <2>2. ASSUME NEW b \in waiting, b.num = n
        PROVE  n < SentOnce(o) /\ b.data = sent[o][n + 1]
    <3>1. PICK j \in 0..(SentOnce(o) - 1) : b = ChunkOf(o, j)
      BY <1>6 DEF SentChunk
    <3>2. j = n
      BY <2>2, <3>1 DEF ChunkOf
    <3> QED
      BY <3>1, <3>2, <1>3 DEF ChunkOf
  <2> QED
    BY <2>1, <2>2
<1>8. k + 1 <= SentOnce(o)
  <2>1. CASE k = last
    BY <2>1, <1>3
  <2>2. CASE k > last
    <3>1. k \in (last + 1)..k
      BY <2>2, <1>3, <1>4
    <3>2. k < SentOnce(o)
      BY <3>1, <1>7
    <3> QED
      BY <3>2, <1>3, <1>4
  <2> QED
    BY <2>1, <2>2, <1>3, <1>4
<1>9. ASSUME NEW i \in 1..(k - last)
      PROVE  Datum(i) = sent[o][last + 1 + i] /\ Datum(i) \in Data
  <2>1. last + i \in (last + 1)..k /\ (last + i) + 1 = last + 1 + i
    BY <1>3, <1>4
  <2>2. PICK c \in waiting : c.num = last + i
    BY <2>1, <1>7
  <2>3. /\ (CHOOSE b \in waiting : b.num = last + i) \in waiting
        /\ (CHOOSE b \in waiting : b.num = last + i).num = last + i
    BY <2>2
  <2>4. Datum(i) = sent[o][(last + i) + 1]
    BY <2>1, <2>3, <1>7
  <2>5. (CHOOSE b \in waiting : b.num = last + i) \in Chunk
    BY <2>3, <1>6
  <2>6. Datum(i) \in Data
    BY <2>5 DEF Chunk
  <2> QED
    BY <2>1, <2>4, <2>6
<1> HIDE DEF Datum
<1> DEFINE tail == [i \in 1..(k - last) |-> Datum(i)]
           all  == delivered[e] \o tail
<1>10. k - last \in Nat
  BY <1>3, <1>4
<1>11. tail \in Seq(Data) /\ Len(tail) = k - last
  BY <1>9, <1>10
<1>12. /\ all \in Seq(Data)
       /\ Len(all) = Len(delivered[e]) + Len(tail)
       /\ \A i \in 1..(Len(delivered[e]) + Len(tail)) : all[i] =
             IF i <= Len(delivered[e]) THEN delivered[e][i]
             ELSE tail[i - Len(delivered[e])]
  <2> HIDE DEF tail
  <2> QED
    BY <1>5, <1>11, ConcatProperties, Zenon
<1>13. Len(all) = k + 1
  BY <1>3, <1>4, <1>11, <1>12
<1>14. ASSUME NEW i \in 1..(k + 1)
       PROVE  all[i] = sent[o][i]
  <2>1. i \in 1..(Len(delivered[e]) + Len(tail))
    BY <1>12, <1>13
  <2>2. CASE i <= Len(delivered[e])
    <3>1. all[i] = delivered[e][i] /\ i \in 1..Len(delivered[e])
      BY <2>1, <2>2, <1>3, <1>12
    <3>2. PeerInv(o)
      BY <1>2 DEF IndInv
    <3> QED
      BY <3>1, <3>2, <1>2 DEF PeerInv
  <2>3. CASE i > Len(delivered[e])
    <3> DEFINE j == i - (last + 1)
    <3>1. j \in 1..(k - last) /\ last + 1 + j = i
      BY <2>3, <1>3, <1>4
    <3>2. all[i] = tail[j]
      BY <2>1, <2>3, <1>3, <1>12, SMTT(30)
    <3> HIDE DEF j
    <3>3. tail[j] = Datum(j)
      BY <3>1
    <3> QED
      BY <3>1, <3>2, <3>3, <1>9
  <2> QED
    BY <2>2, <2>3, <1>3, SMTT(30)
<1>15. {c \in waiting : k < c.num} \in SUBSET Chunk
  BY <1>6
<1>16. delivered' = [delivered EXCEPT ![e] = all]
  BY <1>1 DEF last, Datum
<1> HIDE DEF all
<1>17. /\ lastInOrder' = [lastInOrder EXCEPT ![e] = k]
       /\ waitingPackets' = [waitingPackets EXCEPT ![e] = {c \in waiting : k < c.num}]
       /\ lastInOrder[e] <= k
       /\ k + 1 <= SentOnce(Peer(e))
       /\ \A c \in {c \in waiting : k < c.num} : SentChunk(Peer(e), c) /\ k < c.num
       /\ \A i \in 1..(k + 1) : all[i] = sent[Peer(e)][i]
  BY <1>1, <1>4, <1>6, <1>8, <1>14 DEF last, o, waiting
<1> QED
  BY <1>4, <1>12, <1>13, <1>15, <1>16, <1>17

\* A step that leaves both directions alone and sends nothing.
LEMMA QuietPreserves ==
    ASSUME IndInv, UNCHANGED <<sender, receiver>>, net' \subseteq net,
           netLossFactor' \in [Ends -> 0..2],
           muted' \in [Ends -> BOOLEAN],
           closed' \in [Ends -> BOOLEAN]
    PROVE  IndInv'
<1>1. /\ outgoingData' = outgoingData /\ newChunks' = newChunks
      /\ unackedChunks' = unackedChunks /\ resendRequested' = resendRequested
      /\ currentPacketChunkNum' = currentPacketChunkNum /\ sent' = sent
      /\ lastInOrder' = lastInOrder /\ waitingPackets' = waitingPackets
      /\ delivered' = delivered
  BY DEF sender, receiver
<1>2. TypeOK'
  BY <1>1 DEF IndInv, TypeOK
<1>3. \A f : SentOnce(f)' = SentOnce(f) /\ FirstUnacked(f)' = FirstUnacked(f)
  BY <1>1 DEF SentOnce, FirstUnacked
<1>4. \A f, n : ChunkOf(f, n)' = ChunkOf(f, n)
  BY <1>1 DEF ChunkOf
<1>5. \A f, c : SentChunk(f, c)' = SentChunk(f, c)
  BY <1>3, <1>4 DEF SentChunk
<1>6. ASSUME NEW f \in Ends
      PROVE  OutgoingInv(f)' /\ QueueInv(f)' /\ AckInv(f)' /\ PeerInv(f)'
  <2>1. OutgoingInv(f) /\ QueueInv(f) /\ AckInv(f) /\ PeerInv(f)
    BY DEF IndInv
  <2>2. OutgoingInv(f)'
    BY <1>1, <2>1 DEF OutgoingInv
  <2>3. QueueInv(f)'
    BY <1>1, <1>3, <1>4, <2>1 DEF QueueInv
  <2>4. AckInv(f)'
    BY <1>1, <1>3, <2>1 DEF AckInv
  <2>5. PeerInv(f)'
    BY <1>1, <1>5, <2>1 DEF PeerInv
  <2> QED
    BY <2>2, <2>3, <2>4, <2>5
<1>7. NetInv'
  <2>1. \A f, c : Reattempt(f, c)' = Reattempt(f, c)
    BY <1>1 DEF Reattempt
  <2> QED
    BY <1>1, <1>5, <2>1 DEF IndInv, NetInv
<1>8. AnswerInv'
  BY <1>1 DEF IndInv, AnswerInv
<1> QED
  BY <1>2, <1>6, <1>7, <1>8 DEF IndInv

\* Receiving a datagram preserves the invariant: the superfluous ones change
\* nothing, the others the two directions of the connection independently.
LEMMA ReceivePreserves ==
    ASSUME IndInv, NEW e \in Ends, NEW p \in net, NEW duplicated, Receive(e, p, duplicated)
    PROVE  IndInv'
<1> DEFINE o == Peer(e)
<1>0. TypeOK /\ NetInv /\ \A f \in Ends : OutgoingInv(f) /\ QueueInv(f) /\ AckInv(f) /\ PeerInv(f)
  BY DEF IndInv
<1>1. /\ outgoingData' = outgoingData /\ newChunks' = newChunks /\ sent' = sent
      /\ currentPacketChunkNum' = currentPacketChunkNum
      /\ netLossFactor' = netLossFactor /\ muted' = muted /\ closed' = closed
      /\ net' \subseteq net
      /\ p.src = o
  BY DEF Receive, ProcessRawPacket, sender, status
<1>2. o \in Ends /\ Peer(o) = e /\ o # e /\ \A f \in Ends : f = e \/ f = o
  BY PeerFacts
<1>3. \A f \in Ends : SentOnce(f)' = SentOnce(f)
  BY <1>1 DEF SentOnce
<1>4. \A f \in Ends : \A k : ChunkOf(f, k)' = ChunkOf(f, k)
  BY <1>1 DEF ChunkOf
<1>5. \A f \in Ends : \A c : SentChunk(f, c)' <=> SentChunk(f, c)
  BY <1>3, <1>4 DEF SentChunk
<1>6. CASE UNCHANGED <<unackedChunks, resendRequested, receiver>>
  <2>1. UNCHANGED <<sender, receiver>>
    BY <1>1, <1>6 DEF sender
  <2>2. /\ netLossFactor' \in [Ends -> 0..2]
        /\ muted' \in [Ends -> BOOLEAN]
        /\ closed' \in [Ends -> BOOLEAN]
    BY <1>0, <1>1 DEF TypeOK
  <2> QED
    BY <1>1, <2>1, <2>2, QuietPreserves
<1>7. CASE HandleAcks(e, p) /\ HandleChunks(e, p)
  <2>1. PICK n \in 0..Len(unackedChunks[e]) :
             /\ unackedChunks' = [unackedChunks EXCEPT ![e] = SubSeq(@, n + 1, Len(@))]
             /\ \E r \in SUBSET ((FirstUnacked(e) + n)..(SentOnce(e) - 1)) :
                   resendRequested' = [resendRequested EXCEPT ![e] = r]
             /\ FirstUnacked(e) + n <= lastInOrder[Peer(e)] + 1
    BY <1>1, <1>7, HandleAcksEffect
  <2>2. PICK k \in Int, W \in SUBSET Chunk, D \in Seq(Data) :
             /\ lastInOrder' = [lastInOrder EXCEPT ![e] = k]
             /\ waitingPackets' = [waitingPackets EXCEPT ![e] = W]
             /\ delivered' = [delivered EXCEPT ![e] = D]
             /\ lastInOrder[e] <= k
             /\ k + 1 <= SentOnce(Peer(e))
             /\ \A c \in W : SentChunk(Peer(e), c) /\ k < c.num
             /\ Len(D) = k + 1
             /\ \A i \in 1..(k + 1) : D[i] = sent[Peer(e)][i]
    BY <1>1, <1>7, HandleChunksEffect
  <2> DEFINE rest == SubSeq(unackedChunks[e], n + 1, Len(unackedChunks[e]))
  <2>3. /\ FirstUnacked(e) \in Nat /\ SentOnce(e) \in Nat /\ Len(unackedChunks[e]) \in Nat
        /\ lastInOrder[o] \in Int
        /\ lastInOrder[o] + 1 <= SentOnce(e)
    BY Bounds
  <2>4. /\ FirstUnacked(o) \in Nat
        /\ lastInOrder[e] \in Int /\ lastInOrder[e] >= -1
        /\ FirstUnacked(o) <= lastInOrder[e] + 1
    <3>1. /\ FirstUnacked(o) \in Nat
          /\ lastInOrder[Peer(o)] \in Int /\ lastInOrder[Peer(o)] >= -1
          /\ FirstUnacked(o) <= lastInOrder[Peer(o)] + 1
      <4> HIDE DEF o
      <4> QED
        BY <1>2, Bounds
    <3> QED
      BY <3>1, <1>2
  <2>5. n \in Nat
    BY <2>3
  <2>6. unackedChunks[e] \in Seq(Chunk)
    BY <1>0 DEF TypeOK
  <2>7. /\ rest \in Seq(Chunk)
        /\ Len(rest) = Len(unackedChunks[e]) - n
        /\ \A i \in 1..(Len(unackedChunks[e]) - n) : rest[i] = unackedChunks[e][n + i]
    BY <2>6, SuffixFacts
  <2> HIDE DEF rest
  <2>8. /\ unackedChunks' = [unackedChunks EXCEPT ![e] = rest]
        /\ unackedChunks'[e] = rest
        /\ unackedChunks'[o] = unackedChunks[o]
        /\ resendRequested'[e] \subseteq (FirstUnacked(e) + n)..(SentOnce(e) - 1)
        /\ resendRequested'[o] = resendRequested[o]
        /\ lastInOrder'[e] = k /\ lastInOrder'[o] = lastInOrder[o]
        /\ waitingPackets'[e] = W /\ waitingPackets'[o] = waitingPackets[o]
        /\ delivered'[e] = D /\ delivered'[o] = delivered[o]
    BY <1>0, <1>2, <2>1, <2>2 DEF TypeOK, rest
  <2>9. FirstUnacked(e)' = FirstUnacked(e) + n /\ FirstUnacked(o)' = FirstUnacked(o)
    <3>1. FirstUnacked(e) = SentOnce(e) - Len(unackedChunks[e])
      BY DEF FirstUnacked
    <3>2. FirstUnacked(e)' = SentOnce(e) - (Len(unackedChunks[e]) - n)
      BY <1>3, <2>7, <2>8 DEF FirstUnacked
    <3>3. FirstUnacked(e)' = FirstUnacked(e) + n
      BY <3>1, <3>2, <2>3, <2>5
    <3>4. FirstUnacked(o)' = FirstUnacked(o)
      BY <1>2, <1>3, <2>8 DEF FirstUnacked
    <3> QED
      BY <3>3, <3>4
  <2>10. TypeOK'
    <3>1. resendRequested' \in [Ends -> SUBSET Nat]
      <4>1. (FirstUnacked(e) + n)..(SentOnce(e) - 1) \subseteq Nat
        BY <2>3, <2>5
      <4> QED
        BY <4>1, <1>0, <2>1 DEF TypeOK
    <3>2. k \in Nat \cup {-1}
      BY <2>2, <2>4
    <3>3. net' \subseteq Packet
      BY <1>0, <1>1 DEF TypeOK
    <3>4. /\ unackedChunks' \in [Ends -> Seq(Chunk)]
          /\ lastInOrder' \in [Ends -> Nat \cup {-1}]
          /\ waitingPackets' \in [Ends -> SUBSET Chunk]
          /\ delivered' \in [Ends -> Seq(Data)]
      BY <3>2, <1>0, <2>2, <2>7, <2>8 DEF TypeOK
    <3> QED
      BY <3>1, <3>3, <3>4, <1>0, <1>1 DEF TypeOK
  <2>11. ASSUME NEW f \in Ends PROVE OutgoingInv(f)'
    BY <1>0, <1>1 DEF OutgoingInv
  <2>12. QueueInv(e)'
    <3>1. ASSUME NEW i \in 1..(Len(unackedChunks[e]) - n)
          PROVE  rest[i] = ChunkOf(e, (FirstUnacked(e) + n) + i - 1)
      <4>1. /\ n + i \in 1..Len(unackedChunks[e])
            /\ FirstUnacked(e) + (n + i) - 1 = (FirstUnacked(e) + n) + i - 1
        BY <2>3, <2>5
      <4>2. unackedChunks[e][n + i] = ChunkOf(e, FirstUnacked(e) + (n + i) - 1)
        BY <4>1, <1>0 DEF QueueInv
      <4> QED
        BY <4>1, <4>2, <2>7
    <3>2. \A i \in 1..Len(unackedChunks'[e]) :
             unackedChunks'[e][i] = ChunkOf(e, FirstUnacked(e) + i - 1)'
      BY <3>1, <1>4, <2>7, <2>8, <2>9
    <3>3. \A i \in 1..Len(newChunks'[e]) : newChunks'[e][i] = ChunkOf(e, SentOnce(e) + i - 1)'
      BY <1>0, <1>1, <1>3, <1>4 DEF QueueInv
    <3>4. 0 <= FirstUnacked(e)'
      BY <2>3, <2>5, <2>9
    <3> QED
      BY <3>2, <3>3, <3>4, <1>3, <2>8, <2>9 DEF QueueInv
  <2>13. QueueInv(o)'
    <3>1. /\ \A i \in 1..Len(newChunks[o]) : newChunks[o][i] = ChunkOf(o, SentOnce(o) + i - 1)'
          /\ \A i \in 1..Len(unackedChunks[o]) :
                unackedChunks[o][i] = ChunkOf(o, FirstUnacked(o) + i - 1)'
      BY <1>0, <1>2, <1>3, <1>4, <2>9 DEF QueueInv
    <3> QED
      BY <3>1, <1>0, <1>1, <1>2, <1>3, <2>8, <2>9 DEF QueueInv
  <2>14. AckInv(e)'
    BY <1>3, <2>1, <2>3, <2>8, <2>9 DEF AckInv
  <2>15. AckInv(o)'
    <3>1. FirstUnacked(o) <= k + 1
      BY <2>2, <2>4
    <3> QED
      BY <3>1, <1>2, <1>3, <2>2, <2>8, <2>9 DEF AckInv
  <2>16. PeerInv(e)'
    BY <1>0, <1>1, <1>5, <2>8 DEF PeerInv
  <2>17. PeerInv(o)'
    <3>1. sent'[o] = sent[o] /\ Peer(o) = e
      BY <1>1, <1>2
    <3>2. \A c \in W : SentChunk(o, c)' /\ k < c.num
      BY <1>2, <1>5, <2>2
    <3>3. Len(D) = k + 1 /\ \A i \in 1..Len(D) : D[i] = sent'[o][i]
      BY <3>1, <2>2
    <3> QED
      BY <3>1, <3>2, <3>3, <2>8 DEF PeerInv
  <2>18. lastInOrder["server"] >= 0 => lastInOrder'["server"] >= 0
    <3>1. CASE e = "server"
      BY <3>1, <2>2, <2>4, <2>8
    <3>2. CASE e # "server"
      BY <3>2, <1>0, <2>2 DEF TypeOK, Ends
    <3> QED
      BY <3>1, <3>2
  <2>19. NetInv'
    <3> SUFFICES ASSUME NEW q \in net
                 PROVE  /\ q.lastContinuous <= lastInOrder'[q.src]
                        /\ \A c \in q.chunks : SentChunk(q.src, c)' \/ Reattempt(q.src, c)'
      BY <1>1 DEF NetInv
    <3>1. q.src \in Ends /\ q.lastContinuous \in Int
      BY <1>0 DEF TypeOK, Packet
    <3>2. /\ q.lastContinuous <= lastInOrder[q.src]
          /\ \A c \in q.chunks : SentChunk(q.src, c) \/ Reattempt(q.src, c)
      BY <1>0 DEF NetInv
    <3>3. q.lastContinuous <= lastInOrder'[q.src]
      <4>1. CASE q.src = e
        BY <3>1, <3>2, <4>1, <2>2, <2>4, <2>8
      <4>2. CASE q.src = o
        BY <3>1, <3>2, <4>2, <2>8
      <4> QED
        BY <3>1, <4>1, <4>2, <1>2
    <3>4. \A c \in q.chunks : SentChunk(q.src, c)' \/ Reattempt(q.src, c)'
      BY <3>1, <3>2, <1>5, <2>18 DEF Reattempt
    <3> QED
      BY <3>3, <3>4
  <2>20. AnswerInv'
    BY <1>1, <2>18 DEF IndInv, AnswerInv
  <2> QED
    BY <1>2, <2>10, <2>11, <2>12, <2>13, <2>14, <2>15, <2>16, <2>17, <2>19, <2>20 DEF IndInv
<1> QED
  BY <1>6, <1>7 DEF Receive, ProcessRawPacket, sender

\* A reconnection attempt repeats a number that the server knows, because it
\* has answered.
LEMMA AttemptReconnectPreserves ==
    ASSUME IndInv, NEW d \in ReconnectData, AttemptReconnect(d)
    PROVE  IndInv'
<1>1. PICK chunks \in {{}, {[num |-> 0, data |-> d]}} :
         net' = net \cup {[src |-> "client", lastContinuous |-> -1, nakType |-> 0,
                           naks |-> {}, chunks |-> chunks]}
  BY DEF AttemptReconnect
<1> DEFINE q == [src |-> "client", lastContinuous |-> -1, nakType |-> 0,
                 naks |-> {}, chunks |-> chunks]
<1>2. UNCHANGED <<sender, receiver, status>> /\ delivered["client"] # <<>>
  BY DEF AttemptReconnect
<1>3. /\ outgoingData' = outgoingData /\ newChunks' = newChunks
      /\ unackedChunks' = unackedChunks /\ resendRequested' = resendRequested
      /\ currentPacketChunkNum' = currentPacketChunkNum /\ sent' = sent
      /\ lastInOrder' = lastInOrder /\ waitingPackets' = waitingPackets
      /\ delivered' = delivered
      /\ netLossFactor' = netLossFactor /\ muted' = muted /\ closed' = closed
  BY <1>2 DEF sender, receiver, status
<1>4. "client" \in Ends /\ "server" \in Ends /\ Peer("server") = "client"
  BY DEF Ends, Peer
<1>5. q \in Packet
  <2>1. chunks \in SUBSET Chunk
    BY ConstantsAssumption DEF Chunk
  <2>2. {} \in SUBSET (0..MaxNakOffset)
    OBVIOUS
  <2> QED
    BY <1>4, <2>1, <2>2 DEF Packet
<1>6. lastInOrder["server"] >= 0
  <2>1. /\ Len(delivered["client"]) \in Nat /\ Len(delivered["client"]) # 0
    BY <1>2, <1>4, LenProperties, EmptySeq DEF IndInv, TypeOK
  <2>2. /\ SentOnce("server") \in Nat /\ Len(sent["server"]) \in Nat
        /\ SentOnce("server") <= Len(sent["server"])
        /\ lastInOrder["client"] \in Int
        /\ Len(delivered["client"]) = lastInOrder["client"] + 1
        /\ lastInOrder["client"] + 1 <= SentOnce("server")
    BY <1>4, Bounds
  <2>3. Len(sent["server"]) # 0
    BY <2>1, <2>2
  <2>4. sent["server"] # <<>>
    BY <1>4, <2>3, EmptySeq DEF IndInv, TypeOK
  <2> QED
    BY <2>4 DEF IndInv, AnswerInv
<1>7. TypeOK'
  BY <1>1, <1>3, <1>5 DEF IndInv, TypeOK
<1>8. \A f : SentOnce(f)' = SentOnce(f) /\ FirstUnacked(f)' = FirstUnacked(f)
  BY <1>3 DEF SentOnce, FirstUnacked
<1>9. \A f, n : ChunkOf(f, n)' = ChunkOf(f, n)
  BY <1>3 DEF ChunkOf
<1>10. \A f, c : SentChunk(f, c)' = SentChunk(f, c) /\ Reattempt(f, c)' = Reattempt(f, c)
  BY <1>3, <1>8, <1>9 DEF SentChunk, Reattempt
<1>11. ASSUME NEW f \in Ends
       PROVE  OutgoingInv(f)' /\ QueueInv(f)' /\ AckInv(f)' /\ PeerInv(f)'
  <2>1. OutgoingInv(f) /\ QueueInv(f) /\ AckInv(f) /\ PeerInv(f)
    BY DEF IndInv
  <2>2. OutgoingInv(f)'
    BY <1>3, <2>1 DEF OutgoingInv
  <2>3. QueueInv(f)'
    BY <1>3, <1>8, <1>9, <2>1 DEF QueueInv
  <2>4. AckInv(f)'
    BY <1>3, <1>8, <2>1 DEF AckInv
  <2>5. PeerInv(f)'
    BY <1>3, <1>10, <2>1 DEF PeerInv
  <2> QED
    BY <2>2, <2>3, <2>4, <2>5
<1>12. NetInv'
  <2>1. ASSUME NEW p \in net
        PROVE  /\ p.lastContinuous <= lastInOrder'[p.src]
               /\ \A c \in p.chunks : SentChunk(p.src, c)' \/ Reattempt(p.src, c)'
    BY <1>3, <1>10 DEF IndInv, NetInv
  <2>2. /\ q.lastContinuous <= lastInOrder'[q.src]
        /\ \A c \in q.chunks : Reattempt(q.src, c)'
    <3>1. lastInOrder["client"] \in Nat \cup {-1}
      BY <1>4 DEF IndInv, TypeOK
    <3>2. -1 <= lastInOrder'["client"]
      BY <3>1, <1>3
    <3>3. \A c \in chunks : Reattempt("client", c)'
      BY <1>3, <1>6 DEF Reattempt
    <3> QED
      BY <3>2, <3>3
  <2> HIDE DEF q
  <2> QED
    BY <1>1, <2>1, <2>2 DEF NetInv, q
<1>13. AnswerInv'
  BY <1>3 DEF IndInv, AnswerInv
<1> QED
  BY <1>7, <1>11, <1>12, <1>13 DEF IndInv

\* Every step preserves the inductive invariant.
LEMMA NextPreserves == IndInv /\ [Next]_vars => IndInv'
<1> SUFFICES ASSUME IndInv, [Next]_vars PROVE IndInv'
  OBVIOUS
<1>1. ASSUME NEW e \in Ends, NEW d \in Data, SendData(e, d) PROVE IndInv'
  BY <1>1, SendDataPreserves
<1>2. ASSUME NEW e \in Ends, Unmute(e) \/ \E f \in LossFactors : SetLossFactor(e, f)
      PROVE  IndInv'
  <2>1. /\ UNCHANGED <<sender, receiver>> /\ net' = net
        /\ netLossFactor' \in [Ends -> 0..2]
        /\ muted' \in [Ends -> BOOLEAN]
        /\ closed' \in [Ends -> BOOLEAN]
    <3>1. CASE Unmute(e)
      BY <3>1 DEF Unmute, IndInv, TypeOK
    <3>2. CASE \E f \in LossFactors : SetLossFactor(e, f)
      <4>1. PICK f \in LossFactors : SetLossFactor(e, f)
        BY <3>2
      <4>2. ClampLossFactor(f) \in 0..2
        BY ConstantsAssumption DEF ClampLossFactor
      <4> QED
        BY <4>1, <4>2 DEF SetLossFactor, IndInv, TypeOK
    <3> QED
      BY <1>2, <3>1, <3>2
  <2> QED
    BY <2>1, QuietPreserves
<1>3. ASSUME NEW e \in Ends, NEW p \in net, NEW duplicated, Receive(e, p, duplicated)
      PROVE  IndInv'
  BY <1>3, ReceivePreserves
<1>4. ASSUME NEW e \in Ends, NEW nakDue, NEW unackDue, NEW sendDue, NEW full,
             Flush(e, nakDue, unackDue, sendDue, full),
             netLossFactor' \in [Ends -> 0..2],
             muted' \in [Ends -> BOOLEAN],
             closed' \in [Ends -> BOOLEAN]
      PROVE  IndInv'
  <2>1. PICK n \in 0..Len(outgoingData[e]) : \E m \in 0..Len(Queue(e, n)) : FlushResult(e, n, m)
    BY <1>4, FlushHasResult DEF IndInv
  <2>2. PICK m \in 0..Len(Queue(e, n)) : FlushResult(e, n, m)
    BY <2>1
  <2> QED
    BY <1>4, <2>2, FlushPreserves
<1>5. ASSUME NEW e \in Ends, Update(e) PROVE IndInv'
  <2>1. /\ netLossFactor' \in [Ends -> 0..2]
        /\ muted' \in [Ends -> BOOLEAN]
        /\ closed' \in [Ends -> BOOLEAN]
    BY <1>5 DEF Update, status, IndInv, TypeOK
  <2> QED
    BY <1>4, <1>5, <2>1 DEF Update
<1>6. ASSUME NEW e \in Ends, Close(e) PROVE IndInv'
  <2>1. /\ netLossFactor' \in [Ends -> 0..2]
        /\ muted' \in [Ends -> BOOLEAN]
        /\ closed' \in [Ends -> BOOLEAN]
    BY <1>6 DEF Close, IndInv, TypeOK
  <2>2. CASE UNCHANGED <<sender, receiver, net>>
    BY <2>1, <2>2, QuietPreserves
  <2>3. CASE \E nakDue, unackDue, sendDue \in BOOLEAN :
               Flush(e, nakDue, unackDue, sendDue, FALSE)
    BY <1>4, <2>1, <2>3
  <2> QED
    BY <1>6, <2>2, <2>3 DEF Close
<1>7. CASE UNCHANGED vars
  <2>1. /\ UNCHANGED <<sender, receiver>> /\ net' = net
        /\ netLossFactor' = netLossFactor /\ muted' = muted /\ closed' = closed
    BY <1>7 DEF vars, status
  <2>2. /\ netLossFactor' \in [Ends -> 0..2]
        /\ muted' \in [Ends -> BOOLEAN]
        /\ closed' \in [Ends -> BOOLEAN]
    BY <2>1 DEF IndInv, TypeOK
  <2> QED
    BY <2>1, <2>2, QuietPreserves
<1>8. CASE Next
  <2>1. CASE \E d \in ReconnectData : AttemptReconnect(d)
    BY <2>1, AttemptReconnectPreserves
  <2> QED
    BY <1>8, <1>1, <1>2, <1>3, <1>5, <1>6, <2>1 DEF Next
<1> QED
  BY <1>7, <1>8

\* The position of number n in a queue of len consecutive numbers.
LEMMA Position ==
    ASSUME NEW first \in Int, NEW len \in Int, NEW n \in Int, first <= n, n < first + len
    PROVE  \E i \in 1..len : n = first + i - 1
<1>1. n - first + 1 \in 1..len /\ n = first + (n - first + 1) - 1
  OBVIOUS
<1> QED
  BY <1>1

\* Every chunk that is sent and not acknowledged is in unackedChunks.
LEMMA HeldUnacked ==
    ASSUME IndInv, NEW e \in Ends, NEW n \in Int, FirstUnacked(e) <= n, n < SentOnce(e)
    PROVE  n \in Nums(Elements(unackedChunks[e]))
<1>1. FirstUnacked(e) \in Int /\ SentOnce(e) \in Int /\ Len(unackedChunks[e]) \in Int
  BY Bounds
<1>2. FirstUnacked(e) = SentOnce(e) - Len(unackedChunks[e])
  BY DEF FirstUnacked
<1>3. n < FirstUnacked(e) + Len(unackedChunks[e])
  BY <1>1, <1>2
<1>4. PICK i \in 1..Len(unackedChunks[e]) : n = FirstUnacked(e) + i - 1
  BY <1>1, <1>3, Position
<1>5. unackedChunks[e][i] = ChunkOf(e, n)
  BY <1>4 DEF IndInv, QueueInv
<1>6. unackedChunks[e][i].num = n
  BY <1>5 DEF ChunkOf
<1>7. i \in DOMAIN unackedChunks[e]
  BY LenProperties DEF IndInv, TypeOK
<1> QED
  BY <1>6, <1>7 DEF Nums, Elements

\* Every chunk that is made and not sent is in newChunks.
LEMMA HeldNew ==
    ASSUME IndInv, NEW e \in Ends, NEW n \in Int,
           SentOnce(e) <= n, n < currentPacketChunkNum[e]
    PROVE  n \in Nums(Elements(newChunks[e]))
<1>1. SentOnce(e) \in Int /\ currentPacketChunkNum[e] \in Int /\ Len(newChunks[e]) \in Int
  BY Bounds
<1>2. SentOnce(e) = currentPacketChunkNum[e] - Len(newChunks[e])
  BY DEF SentOnce
<1>3. n < SentOnce(e) + Len(newChunks[e])
  BY <1>1, <1>2
<1>4. PICK i \in 1..Len(newChunks[e]) : n = SentOnce(e) + i - 1
  BY <1>1, <1>3, Position
<1>5. newChunks[e][i] = ChunkOf(e, n)
  BY <1>4 DEF IndInv, QueueInv
<1>6. newChunks[e][i].num = n
  BY <1>5 DEF ChunkOf
<1>7. i \in DOMAIN newChunks[e]
  BY LenProperties DEF IndInv, TypeOK
<1> QED
  BY <1>6, <1>7 DEF Nums, Elements

-----------------------------------------------------------------------------
(* The theorems.                                                           *)

\* The inductive invariant holds in every reachable state.
THEOREM Invariance == Spec => []IndInv
<1>1. Init => IndInv
  BY InitIndInv
<1>2. IndInv /\ [Next]_vars => IndInv'
  BY NextPreserves
<1> QED
  BY <1>1, <1>2, PTL DEF Spec

\* Every variable keeps its type, in particular no acknowledgement, NAK or
\* timer leads outside of the queues.
THEOREM TypeCorrect == Spec => []TypeOK
<1>1. IndInv => TypeOK
  BY DEF IndInv
<1> QED
  BY <1>1, Invariance, PTL

\* The transport delivers each direction's data exactly once and in order,
\* whatever is lost, duplicated or reordered and however often the connection
\* is closed or its loss factor changed.
THEOREM Delivery == Spec => []InOrderExactlyOnce
<1>1. ASSUME IndInv PROVE InOrderExactlyOnce
  <2> SUFFICES ASSUME NEW e \in Ends
               PROVE  /\ Len(delivered[e]) <= Len(sent[Peer(e)])
                      /\ \A i \in 1..Len(delivered[e]) : delivered[e][i] = sent[Peer(e)][i]
    BY DEF InOrderExactlyOnce
  <2> DEFINE o == Peer(e)
  <2>1. o \in Ends /\ Peer(o) = e
    BY PeerFacts
  <2> HIDE DEF o
  <2>2. /\ SentOnce(o) \in Nat /\ Len(sent[o]) \in Nat /\ SentOnce(o) <= Len(sent[o])
        /\ lastInOrder[Peer(o)] \in Int
        /\ Len(delivered[Peer(o)]) = lastInOrder[Peer(o)] + 1
        /\ lastInOrder[Peer(o)] + 1 <= SentOnce(o)
    BY <1>1, <2>1, Bounds
  <2>3. Len(delivered[Peer(o)]) <= Len(sent[o])
    BY <2>2
  <2>4. PeerInv(o)
    BY <1>1, <2>1 DEF IndInv
  <2> QED
    BY <2>1, <2>3, <2>4 DEF PeerInv, o
<1> QED
  BY <1>1, Invariance, PTL

\* A sender holds every chunk its peer has not processed: AckChunks never
\* drops one, so that it can always be sent again.
THEOREM Retention == Spec => []NothingForgotten
<1>1. ASSUME IndInv PROVE NothingForgotten
  <2> SUFFICES ASSUME NEW e \in Ends,
                      NEW n \in (lastInOrder[Peer(e)] + 1)..(currentPacketChunkNum[e] - 1)
               PROVE  n \in Nums(Elements(unackedChunks[e]) \cup Elements(newChunks[e]))
    BY DEF NothingForgotten
  <2>1. /\ FirstUnacked(e) \in Nat /\ SentOnce(e) \in Nat
        /\ Len(unackedChunks[e]) \in Nat /\ Len(newChunks[e]) \in Nat
        /\ currentPacketChunkNum[e] \in Nat
        /\ lastInOrder[Peer(e)] \in Int
        /\ FirstUnacked(e) <= lastInOrder[Peer(e)] + 1
    BY <1>1, Bounds
  <2>2. n \in Int /\ FirstUnacked(e) <= n /\ n < currentPacketChunkNum[e]
    BY <2>1
  <2>3. CASE n < SentOnce(e)
    <3>1. n \in Nums(Elements(unackedChunks[e]))
      BY <1>1, <2>2, <2>3, HeldUnacked
    <3> QED
      BY <3>1 DEF Nums
  <2>4. CASE SentOnce(e) <= n
    <3>1. n \in Nums(Elements(newChunks[e]))
      BY <1>1, <2>2, <2>4, HeldNew
    <3> QED
      BY <3>1 DEF Nums
  <2> QED
    BY <2>1, <2>2, <2>3, <2>4
<1> QED
  BY <1>1, Invariance, PTL

\* What is sent again is still unacknowledged, so that the resend set is
\* bounded by the unacknowledged chunks.
THEOREM NoStaleResend == Spec => []ResendOnlyUnacked
<1>1. ASSUME IndInv PROVE ResendOnlyUnacked
  <2> SUFFICES ASSUME NEW e \in Ends, NEW r \in resendRequested[e]
               PROVE  r \in Nums(Elements(unackedChunks[e]))
    BY DEF ResendOnlyUnacked
  <2>1. QueueInv(e)
    BY <1>1 DEF IndInv
  <2>2. r \in FirstUnacked(e)..(SentOnce(e) - 1)
    BY <2>1 DEF QueueInv
  <2>3. FirstUnacked(e) \in Nat /\ SentOnce(e) \in Nat
    BY <1>1, Bounds
  <2>4. r \in Int /\ FirstUnacked(e) <= r /\ r < SentOnce(e)
    BY <2>2, <2>3
  <2> QED
    BY <1>1, <2>4, HeldUnacked
<1> QED
  BY <1>1, Invariance, PTL

\* The connection implements the FIFO stream: submitting data is Submit,
\* receiving a datagram is Deliver or nothing, the rest is invisible.
THEOREM Refinement == Spec => ImplementsStream
<1>1. Init => Stream!Init
  BY DEF Init, Stream!Init, Ends, Stream!Ends
<1>2. Ends = Stream!Ends /\ \A e \in Ends : Stream!Peer(e) = Peer(e)
  BY DEF Ends, Stream!Ends, Peer, Stream!Peer
<1>3. ASSUME IndInv, IndInv', [Next]_vars
      PROVE  [Stream!Next]_<<sent, delivered>>
  <2>1. ASSUME NEW e \in Ends, NEW d \in Data, SendData(e, d)
        PROVE  Stream!Next
    <3>1. Stream!Submit(e, d)
      BY <2>1 DEF SendData, Stream!Submit, receiver
    <3> QED
      BY <3>1, <1>2 DEF Stream!Next
  <2>2. ASSUME NEW e \in Ends, NEW p \in net, NEW duplicated, Receive(e, p, duplicated)
        PROVE  [Stream!Next]_<<sent, delivered>>
    <3>1. sent' = sent /\ p.src = Peer(e)
      BY <2>2 DEF Receive, ProcessRawPacket, sender
    <3>2. CASE UNCHANGED receiver
      BY <3>1, <3>2 DEF receiver
    <3>3. CASE HandleChunks(e, p)
      <4>1. PICK k \in Int, W \in SUBSET Chunk, D \in Seq(Data) :
               /\ lastInOrder' = [lastInOrder EXCEPT ![e] = k]
               /\ waitingPackets' = [waitingPackets EXCEPT ![e] = W]
               /\ delivered' = [delivered EXCEPT ![e] = D]
               /\ lastInOrder[e] <= k
               /\ k + 1 <= SentOnce(Peer(e))
               /\ \A c \in W : SentChunk(Peer(e), c) /\ k < c.num
               /\ Len(D) = k + 1
               /\ \A i \in 1..(k + 1) : D[i] = sent[Peer(e)][i]
        BY <1>3, <3>1, <3>3, HandleChunksEffect
      <4> DEFINE o == Peer(e)
      <4>2. o \in Ends /\ Peer(o) = e
        BY PeerFacts
      <4> HIDE DEF o
      <4>3. /\ SentOnce(o) \in Nat /\ Len(sent[o]) \in Nat /\ SentOnce(o) <= Len(sent[o])
            /\ lastInOrder[Peer(o)] \in Int /\ lastInOrder[Peer(o)] >= -1
            /\ Len(delivered[Peer(o)]) = lastInOrder[Peer(o)] + 1
        BY <1>3, <4>2, Bounds
      <4>4. sent[o] \in Seq(Data) /\ delivered \in [Ends -> Seq(Data)]
        BY <1>3, <4>2 DEF IndInv, TypeOK
      <4>5. k + 1 \in 0..Len(sent[o])
        BY <4>1, <4>2, <4>3 DEF o
      <4>6. /\ SubSeq(sent[o], 1, k + 1) \in Seq(Data)
            /\ Len(SubSeq(sent[o], 1, k + 1)) = k + 1
            /\ \A i \in 1..(k + 1) : SubSeq(sent[o], 1, k + 1)[i] = sent[o][i]
        BY <4>4, <4>5, PrefixFacts
      <4>7. D = SubSeq(sent[o], 1, k + 1)
        <5> DEFINE T == SubSeq(sent[o], 1, k + 1)
        <5>1. T \in Seq(Data) /\ Len(D) = Len(T)
          BY <4>1, <4>6
        <5>2. \A i \in 1..Len(D) : D[i] = T[i]
          BY <4>1, <4>6 DEF o
        <5> HIDE DEF T
        <5>3. D = T
          BY <4>1, <5>1, <5>2, SeqEqual
        <5> QED
          BY <5>3 DEF T
      <4>8. CASE k = lastInOrder[e]
        <5>1. Len(delivered[e]) = k + 1 /\ delivered[e] \in Seq(Data)
          BY <4>2, <4>3, <4>4, <4>8
        <5>2. PeerInv(o)
          BY <1>3, <4>2 DEF IndInv
        <5>3. \A i \in 1..Len(delivered[e]) : delivered[e][i] = D[i]
          BY <4>1, <4>2, <5>1, <5>2 DEF PeerInv, o
        <5>4. delivered[e] = D
          BY <4>1, <5>1, <5>3, SeqEqual
        <5>5. delivered' = delivered
          BY <4>1, <4>4, <5>4
        <5> QED
          BY <3>1, <5>5
      <4>9. CASE k > lastInOrder[e]
        <5>1. k + 1 \in (Len(delivered[e]) + 1)..Len(sent[o])
          BY <4>2, <4>3, <4>5, <4>9
        <5>2. delivered' = [delivered EXCEPT ![e] = SubSeq(sent[o], 1, k + 1)]
          BY <4>1, <4>7
        <5>3. Stream!Deliver(e)
          BY <1>2, <3>1, <5>1, <5>2 DEF Stream!Deliver, o
        <5> QED
          BY <1>2, <5>3 DEF Stream!Next
      <4> QED
        BY <4>1, <4>2, <4>3, <4>8, <4>9
    <3> QED
      BY <2>2, <3>2, <3>3 DEF Receive, ProcessRawPacket
  <2>3. ASSUME NEW e \in Ends,
               \/ Unmute(e)
               \/ \E f \in LossFactors : SetLossFactor(e, f)
               \/ Update(e)
               \/ Close(e)
        PROVE  UNCHANGED <<sent, delivered>>
    BY <2>3 DEF Unmute, SetLossFactor, Update, Close, Flush, sender, receiver
  <2>4. CASE UNCHANGED vars
    BY <2>4 DEF vars, sender, receiver
  <2>5. CASE Next
    <3>1. CASE \E d \in ReconnectData : AttemptReconnect(d)
      BY <3>1 DEF AttemptReconnect, sender, receiver
    <3> QED
      BY <2>5, <2>1, <2>2, <2>3, <3>1 DEF Next
  <2> QED
    BY <1>3, <2>4, <2>5
<1> QED
  BY <1>1, <1>3, Invariance, PTL DEF Spec, ImplementsStream, Stream!Spec
-----------------------------------------------------------------------------
(* What a single step does to the numbers the properties below speak of.    *)

\* A flush sends m new chunks of its endpoint and none of the other.
LEMMA FlushSends ==
    ASSUME IndInv, NEW e \in Ends,
           NEW n \in 0..Len(outgoingData[e]), NEW m \in 0..Len(Queue(e, n)),
           FlushResult(e, n, m)
    PROVE  \A f \in Ends : SentOnce(f) <= SentOnce(f)'
<1>1. TypeOK
  BY DEF IndInv
<1>2. /\ currentPacketChunkNum[e] \in Nat /\ Len(newChunks[e]) \in Nat
      /\ Len(outgoingData[e]) \in Nat
  BY Bounds
<1>3. Queue(e, n) \in Seq(Chunk) /\ Len(Queue(e, n)) = Len(newChunks[e]) + n
  BY <1>1, QueueFacts
<1>4. Len(SubSeq(Queue(e, n), m + 1, Len(Queue(e, n)))) = Len(Queue(e, n)) - m
  BY <1>3, SuffixFacts
<1>5. /\ currentPacketChunkNum' = [currentPacketChunkNum EXCEPT ![e] = @ + n]
      /\ newChunks' = [newChunks EXCEPT ![e] = SubSeq(Queue(e, n), m + 1, Len(Queue(e, n)))]
  BY DEF FlushResult
<1>6. SentOnce(e)' = (currentPacketChunkNum[e] + n) - (Len(newChunks[e]) + n - m)
  BY <1>1, <1>3, <1>4, <1>5 DEF SentOnce, TypeOK
<1>7. n \in Nat /\ m \in Nat
  BY <1>2, <1>3
<1>8. SentOnce(e) <= SentOnce(e)'
  BY <1>2, <1>6, <1>7 DEF SentOnce
<1>9. ASSUME NEW f \in Ends, f # e
      PROVE  SentOnce(f) <= SentOnce(f)'
  <2>1. SentOnce(f)' = SentOnce(f) /\ SentOnce(f) \in Int
    BY <1>1, <1>5, <1>9, Bounds DEF SentOnce, TypeOK
  <2> QED
    BY <2>1
<1> QED
  BY <1>8, <1>9

\* A step flushes, begins a second connection, or adds no datagram and sends no chunk.
LEMMA StepKinds ==
    ASSUME IndInv, [Next]_vars
    PROVE  \/ \E e \in Ends : /\ ~muted[e]
                              /\ \E n \in 0..Len(outgoingData[e]) :
                                    \E m \in 0..Len(Queue(e, n)) : FlushResult(e, n, m)
           \/ \E d \in ReconnectData : AttemptReconnect(d)
           \/ net' \subseteq net /\ UNCHANGED <<newChunks, currentPacketChunkNum>>
<1>1. TypeOK
  BY DEF IndInv
<1>2. ASSUME NEW e \in Ends, NEW nakDue, NEW unackDue, NEW sendDue, NEW full,
             Flush(e, nakDue, unackDue, sendDue, full)
      PROVE  /\ ~muted[e]
             /\ \E n \in 0..Len(outgoingData[e]) :
                   \E m \in 0..Len(Queue(e, n)) : FlushResult(e, n, m)
  BY <1>1, <1>2, FlushHasResult DEF Flush
<1>3. ASSUME NEW e \in Ends, Update(e) \/ Close(e)
      PROVE  \/ \E nakDue, unackDue, sendDue \in BOOLEAN :
                   Flush(e, nakDue, unackDue, sendDue, FALSE)
             \/ net' \subseteq net /\ UNCHANGED <<newChunks, currentPacketChunkNum>>
  BY <1>3 DEF Update, Close, sender
<1>4. ASSUME NEW e \in Ends,
             \/ \E d \in Data : SendData(e, d)
             \/ Unmute(e)
             \/ \E f \in LossFactors : SetLossFactor(e, f)
      PROVE  net' \subseteq net /\ UNCHANGED <<newChunks, currentPacketChunkNum>>
  BY <1>4 DEF SendData, Unmute, SetLossFactor, sender
<1>5. ASSUME NEW e \in Ends, NEW p \in net, NEW duplicated, Receive(e, p, duplicated)
      PROVE  net' \subseteq net /\ UNCHANGED <<newChunks, currentPacketChunkNum>>
  BY <1>5 DEF Receive, ProcessRawPacket, sender
<1>6. CASE UNCHANGED vars
  BY <1>6 DEF vars, sender
<1> QED
  BY <1>2, <1>3, <1>4, <1>5, <1>6 DEF Next

\* What has been processed in order grows.
LEMMA InOrderGrows ==
    ASSUME IndInv, [Next]_vars, NEW f \in Ends
    PROVE  lastInOrder[f] <= lastInOrder'[f]
<1>1. lastInOrder \in [Ends -> Nat \cup {-1}]
  BY DEF IndInv, TypeOK
<1>2. CASE lastInOrder' = lastInOrder
  BY <1>1, <1>2
<1>3. ASSUME NEW e \in Ends, NEW p \in net, NEW duplicated, Receive(e, p, duplicated)
      PROVE  lastInOrder[f] <= lastInOrder'[f]
  <2>1. CASE HandleChunks(e, p)
    <3>1. p.src = Peer(e)
      BY <1>3 DEF Receive
    <3>2. PICK k \in Int : lastInOrder' = [lastInOrder EXCEPT ![e] = k] /\ lastInOrder[e] <= k
      BY <2>1, <3>1, HandleChunksEffect
    <3> QED
      BY <1>1, <3>2
  <2> QED
    BY <1>2, <1>3, <2>1 DEF Receive, ProcessRawPacket, receiver
<1>4. ASSUME NEW e \in Ends,
             \/ \E d \in Data : SendData(e, d)
             \/ Unmute(e)
             \/ \E g \in LossFactors : SetLossFactor(e, g)
             \/ Update(e)
             \/ Close(e)
      PROVE  lastInOrder' = lastInOrder
  BY <1>4 DEF SendData, Unmute, SetLossFactor, Update, Close, Flush, receiver
<1>5. ASSUME NEW d \in ReconnectData, AttemptReconnect(d)
      PROVE  lastInOrder' = lastInOrder
  BY <1>5 DEF AttemptReconnect, receiver
<1>6. CASE UNCHANGED vars
  BY <1>6, <1>2 DEF vars, receiver
<1> QED
  BY <1>2, <1>3, <1>4, <1>5, <1>6 DEF Next

-----------------------------------------------------------------------------
(* NAKs.                                                                   *)

\* What an endpoint lacks before a chunk that waits has been sent, so that neither the
\* offsets of its NAKs nor the length of its leading gap reach beyond what was sent.
LEMMA NakReach ==
    ASSUME IndInv, NEW e \in Ends
    PROVE  /\ \A o \in NakOffsets(e) : o \in Int /\ lastInOrder[e] + 1 + o < SentOnce(Peer(e))
           /\ NumContinuous(e) \in Nat
           /\ NumContinuous(e) > 0 =>
                 lastInOrder[e] + 1 + NumContinuous(e) < SentOnce(Peer(e))
<1> DEFINE o == Peer(e)
           next == lastInOrder[e] + 1
           last == SentOnce(o) - 1
           lead == {n \in DroppedPackets(e) : next..n \subseteq DroppedPackets(e)}
<1>1. o \in Ends /\ Peer(o) = e
  BY PeerFacts
<1>2. next \in Int /\ last \in Int /\ MaxNakOffset \in Nat
  <2>1. lastInOrder[e] \in Int
    BY DEF IndInv, TypeOK
  <2>2. SentOnce(o) \in Int
    BY <1>1, Bounds
  <2> QED
    BY <2>1, <2>2, ConstantsAssumption
<1>3. \A c \in waitingPackets[e] : SentChunk(o, c)
  BY <1>1 DEF IndInv, PeerInv
<1>4. \A c \in waitingPackets[e] : c.num \in Int /\ c.num <= last
  <2>1. \A c : SentChunk(o, c) => c.num \in Int /\ c.num <= last
    BY <1>2 DEF SentChunk, ChunkOf
  <2> QED
    BY <1>3, <2>1
<1>5. \A d \in DroppedPackets(e) : d \in next..(last - 1)
  <2> SUFFICES ASSUME NEW d \in DroppedPackets(e)
               PROVE  d \in next..(last - 1)
    OBVIOUS
  <2>1. d \in next..(next + MaxNakOffset) /\ \E m \in Nums(waitingPackets[e]) : d < m
    BY DEF DroppedPackets
  <2>2. PICK c \in waitingPackets[e] : d < c.num
    BY <2>1 DEF Nums
  <2> QED
    BY <1>2, <1>4, <2>1, <2>2
<1>6. \A q \in NakOffsets(e) : q \in Int /\ next + q < SentOnce(o)
  <2> SUFFICES ASSUME NEW q \in NakOffsets(e)
               PROVE  q \in Int /\ next + q < SentOnce(o)
    OBVIOUS
  <2>1. PICK d \in DroppedPackets(e) : q = d - next
    BY DEF NakOffsets
  <2>2. d \in Int /\ d <= last - 1
    BY <1>2, <1>5, <2>1
  <2>3. q \in Int /\ next + q <= last - 1
    BY <1>2, <2>1, <2>2
  <2>4. SentOnce(o) \in Int
    BY <1>1, Bounds
  <2> QED
    BY <2>3, <2>4, <1>2
<1>7. NumContinuous(e) = Cardinality(lead)
  BY DEF NumContinuous
<1>8. lead \subseteq next..(last - 1)
  BY <1>5
<1> HIDE DEF lead, next, last
<1>9. /\ IsFiniteSet(next..(last - 1))
      /\ Cardinality(next..(last - 1)) = IF next > last - 1 THEN 0 ELSE (last - 1) - next + 1
  BY <1>2, FS_Interval
<1>10. Cardinality(lead) \in Nat /\ Cardinality(lead) <= Cardinality(next..(last - 1))
  BY <1>8, <1>9, FS_Subset, FS_CardinalityType
<1>11. Cardinality(lead) > 0 => next + Cardinality(lead) <= last
  BY <1>2, <1>9, <1>10
<1>12. NumContinuous(e) \in Nat
  BY <1>7, <1>10
<1>13. NumContinuous(e) > 0 => next + NumContinuous(e) <= last
  BY <1>7, <1>11
<1>14. SentOnce(o) \in Int
  BY <1>1, Bounds
<1>15. NumContinuous(e) > 0 => next + NumContinuous(e) < SentOnce(o)
  BY <1>2, <1>12, <1>13, <1>14 DEF last
<1> QED
  BY <1>6, <1>12, <1>15 DEF next

\* A NAK names chunks that its receiver has sent, in every state that follows one in which
\* all NAKs do.
LEMMA NaksPreserved ==
    ASSUME IndInv, NaksNameSentChunks, [Next]_vars
    PROVE  NaksNameSentChunks'
<1>1. TypeOK
  BY DEF IndInv
<1>2. \A f \in Ends : SentOnce(f) \in Int /\ SentOnce(f)' \in Int /\ SentOnce(f) <= SentOnce(f)'
  <2>1. \A f \in Ends : SentOnce(f) \in Int
    BY Bounds
  <2>2. \A f \in Ends : SentOnce(f) <= SentOnce(f)'
    <3>1. ASSUME UNCHANGED <<newChunks, currentPacketChunkNum>>
          PROVE  \A f \in Ends : SentOnce(f) <= SentOnce(f)'
      <4>1. \A f \in Ends : SentOnce(f)' = SentOnce(f)
        BY <3>1 DEF SentOnce
      <4> QED
        BY <2>1, <4>1
    <3>2. ASSUME NEW d \in ReconnectData, AttemptReconnect(d)
          PROVE  UNCHANGED <<newChunks, currentPacketChunkNum>>
      BY <3>2 DEF AttemptReconnect, sender
    <3> QED
      BY <3>1, <3>2, StepKinds, FlushSends
  <2>3. TypeOK'
    BY NextPreserves DEF IndInv
  <2>4. \A f \in Ends : SentOnce(f)' \in Int
    BY <2>3, LenProperties DEF TypeOK, SentOnce
  <2> QED
    BY <2>1, <2>2, <2>4
<1>3. ASSUME NEW p \in net
      PROVE  /\ Peer(p.src) \in Ends /\ p.lastContinuous \in Int /\ p.nakType \in Int
             /\ p.naks \subseteq Int /\ NaksBelow(p, SentOnce(Peer(p.src)))
  <2>1. p \in Packet
    BY <1>1 DEF TypeOK
  <2>2. p.src \in Ends /\ p.lastContinuous \in Int /\ p.nakType \in Int
        /\ p.naks \subseteq 0..MaxNakOffset
    BY <2>1 DEF Packet
  <2>3. 0..MaxNakOffset \subseteq Int
    BY ConstantsAssumption
  <2> QED
    BY <2>2, <2>3, PeerFacts DEF NaksNameSentChunks, SentOnce
<1>4. ASSUME NEW p \in net
      PROVE  NaksBelow(p, SentOnce(Peer(p.src))')
  <2>1. /\ SentOnce(Peer(p.src)) \in Int /\ SentOnce(Peer(p.src))' \in Int
        /\ SentOnce(Peer(p.src)) <= SentOnce(Peer(p.src))'
    BY <1>2, <1>3
  <2> QED
    BY <1>3, <2>1 DEF NaksBelow
<1>5. ASSUME NEW p \in net', p \notin net
      PROVE  NaksBelow(p, SentOnce(Peer(p.src))')
  <2>1. ASSUME NEW e \in Ends,
               NEW n \in 0..Len(outgoingData[e]), NEW m \in 0..Len(Queue(e, n)),
               FlushResult(e, n, m)
        PROVE  NaksBelow(p, SentOnce(Peer(p.src))')
    <3>1. /\ p \in Packet /\ p.src = e /\ p.lastContinuous = lastInOrder[e]
          /\ p.naks \subseteq NakOffsets(e) /\ p.nakType >= -NumContinuous(e)
      BY <1>5, <2>1 DEF FlushResult
    <3>2. p.nakType \in Int /\ lastInOrder[e] \in Int
      BY <1>1, <3>1 DEF Packet, TypeOK
    <3>3. /\ SentOnce(Peer(e)) \in Int /\ SentOnce(Peer(e))' \in Int
          /\ SentOnce(Peer(e)) <= SentOnce(Peer(e))'
      BY <1>2, PeerFacts
    <3>4. \A o \in p.naks : p.lastContinuous + 1 + o < SentOnce(Peer(e))'
      BY <3>1, <3>2, <3>3, NakReach
    <3>5. p.nakType < 0 => p.lastContinuous + 1 - p.nakType < SentOnce(Peer(e))'
      <4>1. NumContinuous(e) \in Nat
        BY NakReach
      <4>2. NumContinuous(e) > 0 => lastInOrder[e] + 1 + NumContinuous(e) < SentOnce(Peer(e))
        BY NakReach
      <4> QED
        BY <3>1, <3>2, <3>3, <4>1, <4>2
    <3> QED
      BY <3>1, <3>4, <3>5 DEF NaksBelow
  <2>2. ASSUME NEW d \in ReconnectData, AttemptReconnect(d)
        PROVE  NaksBelow(p, SentOnce(Peer(p.src))')
    <3>1. p.naks = {} /\ p.nakType = 0
      BY <1>5, <2>2 DEF AttemptReconnect
    <3> QED
      BY <3>1 DEF NaksBelow
  <2> QED
    BY <1>5, <2>1, <2>2, StepKinds
<1>6. \A p \in net' : NaksBelow(p, SentOnce(Peer(p.src))')
  BY <1>4, <1>5
<1> QED
  BY <1>6 DEF NaksNameSentChunks, SentOnce

\* A NAK on its way names only chunks that have been sent, although the other endpoint may
\* compute another position for it (ProcessRawPacket).
THEOREM NakSoundness == Spec => []NaksNameSentChunks
<1>1. Init => NaksNameSentChunks
  BY DEF Init, NaksNameSentChunks
<1>2. IndInv /\ NaksNameSentChunks /\ [Next]_vars => NaksNameSentChunks'
  BY NaksPreserved
<1> QED
  BY <1>1, <1>2, Invariance, PTL DEF Spec
-----------------------------------------------------------------------------
(* Superfluous reconnection attempts.                                      *)

\* The server's endpoint is muted until it has received chunk 0.  A client that has received
\* nothing has submitted nothing after its connection attempt but Quit.  Hence a datagram
\* that acknowledges nothing carries no more than these two.
DiscardInv ==
    /\ lastInOrder["server"] < 0 => muted["server"]
    /\ lastInOrder["client"] < 0 =>
          \A i \in 2..Len(sent["client"]) : sent["client"][i] = Quit
    /\ \A p \in net : p.lastContinuous < 0 =>
          /\ p.src = "client"
          /\ \A c \in p.chunks : c.num = 0 \/ c.data = Quit

\* DiscardInv holds initially.
LEMMA InitDiscardInv == Init => DiscardInv
<1> SUFFICES ASSUME Init PROVE DiscardInv
  OBVIOUS
<1>1. "client" \in Ends /\ "server" \in Ends
  BY DEF Ends
<1>2. sent["client"] = <<>> /\ Len(<<>>) = 0 /\ muted["server"] /\ net = {}
  BY <1>1, EmptySeq DEF Init
<1> QED
  BY <1>2 DEF DiscardInv

\* The server's endpoint is not unmuted before it has received chunk 0.
LEMMA MutedPreserved ==
    ASSUME IndInv, DiscardInv, [Next]_vars, lastInOrder'["server"] < 0
    PROVE  muted'["server"]
<1>1. "server" \in Ends
  BY DEF Ends
<1>2. muted \in [Ends -> BOOLEAN] /\ lastInOrder["server"] \in Int /\ lastInOrder'["server"] \in Int
  <2>1. TypeOK /\ TypeOK'
    BY NextPreserves DEF IndInv
  <2>2. /\ muted \in [Ends -> BOOLEAN]
        /\ lastInOrder \in [Ends -> Nat \cup {-1}]
        /\ lastInOrder' \in [Ends -> Nat \cup {-1}]
    BY <2>1 DEF TypeOK
  <2> QED
    BY <1>1, <2>2
<1>3. lastInOrder["server"] < 0
  BY <1>1, <1>2, InOrderGrows
<1>4. muted["server"]
  BY <1>3 DEF DiscardInv
<1>5. ASSUME NEW e \in Ends, Unmute(e)
      PROVE  muted'["server"]
  <2>1. e # "server"
    BY <1>2, <1>3, <1>5 DEF Unmute, Exists
  <2> QED
    BY <1>1, <1>2, <1>4, <1>5, <2>1 DEF Unmute
<1>6. ASSUME NEW e \in Ends, Close(e)
      PROVE  muted'["server"]
  BY <1>1, <1>2, <1>4, <1>6 DEF Close
<1>7. ASSUME muted' = muted
      PROVE  muted'["server"]
  BY <1>4, <1>7
<1>8. ASSUME NEW e \in Ends,
             \/ \E d \in Data : SendData(e, d)
             \/ \E f \in LossFactors : SetLossFactor(e, f)
             \/ \E p \in net, duplicated \in BOOLEAN : Receive(e, p, duplicated)
             \/ Update(e)
      PROVE  muted' = muted
  BY <1>8 DEF SendData, SetLossFactor, Receive, ProcessRawPacket, Update, status
<1>9. ASSUME NEW d \in ReconnectData, AttemptReconnect(d)
      PROVE  muted' = muted
  BY <1>9 DEF AttemptReconnect, status
<1>10. CASE UNCHANGED vars
  BY <1>10, <1>7 DEF vars, status
<1> QED
  BY <1>5, <1>6, <1>7, <1>8, <1>9, <1>10 DEF Next

\* A client that has received nothing submits nothing but Quit after its attempt.
LEMMA OnlyQuitPreserved ==
    ASSUME IndInv, DiscardInv, [Next]_vars, lastInOrder'["client"] < 0
    PROVE  \A i \in 2..Len(sent'["client"]) : sent'["client"][i] = Quit
<1>1. "client" \in Ends /\ "server" \in Ends /\ Peer("server") = "client"
  BY DEF Ends, Peer
<1>2. lastInOrder["client"] \in Nat \cup {-1} /\ lastInOrder'["client"] \in Int
  <2>1. TypeOK /\ TypeOK'
    BY NextPreserves DEF IndInv
  <2>2. /\ lastInOrder \in [Ends -> Nat \cup {-1}]
        /\ lastInOrder' \in [Ends -> Nat \cup {-1}]
    BY <2>1 DEF TypeOK
  <2> QED
    BY <1>1, <2>2
<1>3. lastInOrder["client"] = -1
  BY <1>1, <1>2, InOrderGrows
<1>4. \A i \in 2..Len(sent["client"]) : sent["client"][i] = Quit
  BY <1>3 DEF DiscardInv
<1>5. ASSUME NEW d \in Data, SendData("client", d)
      PROVE  \A i \in 2..Len(sent'["client"]) : sent'["client"][i] = Quit
  <2>1. delivered["client"] \in Seq(Data) /\ Len(delivered["client"]) = 0
    BY <1>1, <1>3 DEF IndInv, TypeOK, PeerInv
  <2>2. delivered["client"] = <<>>
    BY <2>1, EmptySeq
  <2>3. sent["client"] = <<>> \/ d = Quit
    BY <1>5, <2>2 DEF SendData, MayAsk
  <2>4. sent \in [Ends -> Seq(Data)] /\ sent["client"] \in Seq(Data)
    BY <1>1 DEF IndInv, TypeOK
  <2>5. sent'["client"] = Append(sent["client"], d)
    BY <1>1, <1>5, <2>4 DEF SendData
  <2>6. /\ Len(sent["client"]) \in Nat
        /\ Len(sent'["client"]) = Len(sent["client"]) + 1
        /\ \A i \in 1..Len(sent["client"]) : sent'["client"][i] = sent["client"][i]
        /\ sent'["client"][Len(sent["client"]) + 1] = d
    BY <2>4, <2>5, AppendProperties, LenProperties
  <2>7. sent["client"] = <<>> => Len(sent["client"]) = 0
    BY EmptySeq
  <2> SUFFICES ASSUME NEW i \in 2..Len(sent'["client"])
               PROVE  sent'["client"][i] = Quit
    OBVIOUS
  <2>8. CASE i <= Len(sent["client"])
    BY <1>4, <2>6, <2>8
  <2>9. CASE i = Len(sent["client"]) + 1
    BY <2>3, <2>6, <2>7, <2>9
  <2> QED
    BY <2>6, <2>8, <2>9
<1>6. ASSUME sent'["client"] = sent["client"]
      PROVE  \A i \in 2..Len(sent'["client"]) : sent'["client"][i] = Quit
  BY <1>4, <1>6
<1>7. ASSUME NEW e \in Ends, NEW d \in Data, SendData(e, d), e # "client"
      PROVE  sent'["client"] = sent["client"]
  BY <1>1, <1>7 DEF SendData, IndInv, TypeOK
<1>8. ASSUME NEW e \in Ends,
             \/ Unmute(e)
             \/ \E f \in LossFactors : SetLossFactor(e, f)
             \/ \E p \in net, duplicated \in BOOLEAN : Receive(e, p, duplicated)
             \/ Update(e)
             \/ Close(e)
      PROVE  sent' = sent
  BY <1>8 DEF Unmute, SetLossFactor, Receive, ProcessRawPacket, Update, Close, Flush, sender
<1>9. ASSUME NEW d \in ReconnectData, AttemptReconnect(d)
      PROVE  sent' = sent
  BY <1>9 DEF AttemptReconnect, sender
<1>10. CASE UNCHANGED vars
  BY <1>10, <1>6 DEF vars, sender
<1> QED
  BY <1>5, <1>6, <1>7, <1>8, <1>9, <1>10 DEF Next

\* A new datagram that acknowledges nothing carries the connection attempt or Quit.
LEMMA DatagramsPreserved ==
    ASSUME IndInv, DiscardInv, [Next]_vars, NEW p \in net', p.lastContinuous < 0
    PROVE  /\ p.src = "client"
           /\ \A c \in p.chunks : c.num = 0 \/ c.data = Quit
<1>1. "client" \in Ends /\ "server" \in Ends
  BY DEF Ends
<1>2. CASE p \in net
  BY <1>2 DEF DiscardInv
<1>3. ASSUME NEW e \in Ends, ~muted[e],
             NEW n \in 0..Len(outgoingData[e]), NEW m \in 0..Len(Queue(e, n)),
             FlushResult(e, n, m), p \notin net
      PROVE  /\ p.src = "client"
             /\ \A c \in p.chunks : c.num = 0 \/ c.data = Quit
  <2>1. p.src = e /\ p.lastContinuous = lastInOrder[e] /\ sent' = sent
    BY <1>3 DEF FlushResult
  <2>2. e = "client"
    BY <1>3, <2>1 DEF Ends, DiscardInv
  <2>3. \A i \in 2..Len(sent["client"]) : sent["client"][i] = Quit
    BY <2>1, <2>2 DEF DiscardInv
  <2>4. IndInv'
    BY NextPreserves
  <2>5. SentOnce("client")' \in Nat /\ SentOnce("client")' <= Len(sent'["client"])
    <3>1. /\ currentPacketChunkNum'["client"] \in Nat
          /\ Len(newChunks'["client"]) \in Nat
          /\ Len(outgoingData'["client"]) \in Nat
          /\ Len(sent'["client"]) = currentPacketChunkNum'["client"] + Len(outgoingData'["client"])
      BY <1>1, <2>4, LenProperties DEF IndInv, TypeOK, OutgoingInv
    <3>2. SentOnce("client")' = currentPacketChunkNum'["client"] - Len(newChunks'["client"])
      BY DEF SentOnce
    <3>3. SentOnce("client")' >= 0
      <4>1. /\ FirstUnacked("client")' = SentOnce("client")' - Len(unackedChunks'["client"])
            /\ Len(unackedChunks'["client"]) \in Nat
            /\ 0 <= FirstUnacked("client")'
        BY <1>1, <2>4, LenProperties DEF IndInv, TypeOK, QueueInv, FirstUnacked
      <4> QED
        BY <3>1, <3>2, <4>1
    <3> QED
      BY <3>1, <3>2, <3>3
  <2>6. \A c \in p.chunks : SentChunk("client", c)' \/ Reattempt("client", c)'
    BY <2>1, <2>2, <2>4 DEF IndInv, NetInv
  <2>7. ASSUME NEW c \in p.chunks
        PROVE  c.num = 0 \/ c.data = Quit
    <3>1. CASE SentChunk("client", c)'
      <4>1. PICK k \in 0..(SentOnce("client")' - 1) :
                 c = [num |-> k, data |-> sent["client"][k + 1]]
        BY <2>1, <3>1 DEF SentChunk, ChunkOf
      <4>2. k = 0 \/ k + 1 \in 2..Len(sent["client"])
        BY <2>1, <2>5
      <4> QED
        BY <2>3, <4>1, <4>2
    <3>2. CASE Reattempt("client", c)'
      BY <3>2 DEF Reattempt
    <3> QED
      BY <2>6, <3>1, <3>2
  <2> QED
    BY <2>1, <2>2, <2>7
<1>4. ASSUME NEW d \in ReconnectData, AttemptReconnect(d), p \notin net
      PROVE  /\ p.src = "client"
             /\ \A c \in p.chunks : c.num = 0 \/ c.data = Quit
  <2>1. p.src = "client" /\ p.chunks \in {{}, {[num |-> 0, data |-> d]}}
    BY <1>4 DEF AttemptReconnect
  <2> QED
    BY <2>1
<1> QED
  BY <1>2, <1>3, <1>4, StepKinds

\* The discarded datagrams bring nothing new, except the Quit of a client that has not been
\* answered: what ProcessRawPacket drops as superfluous is not needed.
THEOREM HarmlessDiscard == Spec => []DiscardsLoseOnlyQuit
<1>1. IndInv /\ DiscardInv /\ [Next]_vars => DiscardInv'
  BY MutedPreserved, OnlyQuitPreserved, DatagramsPreserved DEF DiscardInv
<1>2. ASSUME IndInv, DiscardInv PROVE DiscardsLoseOnlyQuit
  <2> SUFFICES ASSUME NEW p \in net, NEW e \in Ends, p.src = Peer(e),
                      SuperfluousReconnect(e, p), NEW c \in NewArrivals(e, p)
               PROVE  c.data = Quit
    BY DEF DiscardsLoseOnlyQuit
  <2>1. p.lastContinuous < 0 /\ lastInOrder[e] >= 0 /\ lastInOrder[e] \in Int
    BY <1>2 DEF SuperfluousReconnect, IndInv, TypeOK
  <2>2. c \in p.chunks /\ lastInOrder[e] < c.num
    BY DEF NewArrivals
  <2>3. c.num = 0 \/ c.data = Quit
    BY <1>2, <2>1, <2>2 DEF DiscardInv
  <2> QED
    BY <2>1, <2>2, <2>3
<1> QED
  BY <1>1, <1>2, InitDiscardInv, Invariance, PTL DEF Spec
=============================================================================
