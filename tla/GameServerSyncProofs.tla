------------------------ MODULE GameServerSyncProofs ------------------------
(***************************************************************************)
(* Proofs about GameServerSync for any number of players, any timeouts and *)
(* any number of frames, messages on the way, joins and diverged clients.  *)
(***************************************************************************)
EXTENDS GameServerSync, InductionFacts, SequenceTheorems

\* What a client tells the server
Message == [type : {"keyframe"}, frame : Nat] \cup
           [type : {"response"}, frame : Nat, checksum : Checksums]

IsResponse(m, f) == m.type = "response" /\ m.frame = f

\* The server has an answer of p to f, or it is among the first n messages of p.
Known(p, f, n) ==
    f \in Answered(p) \/ \E j \in 1..n : IsResponse(inbox[p][j], f)

\* The parts of the types that TypeOK leaves open
Shapes == DOMAIN syncResponse = Players /\ inbox \in [Players -> Seq(Message)]

\* Nothing is heard from a seat without a client, nor kept for it.
SilentInv(p) == link[p] # "up" => inbox[p] = <<>> /\ Answered(p) = {}

\* A player has answered no frame that does not exist.
HeardInv(p) == lastFrameResponse[p] <= serverFrameNum \/ lastFrameResponse[p] = 0

\* What p says of a frame comes before whatever it says of later ones, in its messages and
\* in what the server has heard.
OrderInv(p) ==
    link[p] = "up" =>
        \A f \in outstandingSyncFrames :
            /\ f < lastFrameResponse[p] => f \in Answered(p)
            /\ \A i \in 1..Len(inbox[p]) : f < inbox[p][i].frame => Known(p, f, i - 1)
            /\ f <= frameNum[p] => Known(p, f, Len(inbox[p]))

\* A client that has not diverged has never said anything else.
TruthInv(p) ==
    checksum[p] = Correct =>
        /\ \A f \in Answered(p) : syncResponse[p][f] = Correct
        /\ \A i \in 1..Len(inbox[p]) :
              inbox[p][i].type = "response" => inbox[p][i].checksum = Correct

\* The host stays, and it is not so far behind that a frame expires before its answer.
HostInv ==
    localClientNumber # NoPlayer =>
        /\ link[localClientNumber] = "up"
        /\ BoundedLag => serverFrameNum - lastFrameResponse[localClientNumber] <= SyncCheckTimeout

\* No message about a desync is recorded without the desync being so.
ReportInv == syncErrorFrame # 0 => desyncHasOccurred

SeatInv(p) == SilentInv(p) /\ HeardInv(p) /\ OrderInv(p) /\ TruthInv(p)

IndInv ==
    /\ TypeOK /\ Shapes
    /\ MemoryBounded
    /\ HostInv
    /\ ReportInv
    /\ \A p \in Players : SeatInv(p)

-----------------------------------------------------------------------------
\* The ranges of the constants, one by one
LEMMA ConstantTypes ==
    /\ NumPlayers \in Nat /\ SyncCheckTimeout \in Nat /\ MaxNewFrames \in Nat
    /\ MaxFrame \in Nat /\ GameSpeed \in Nat /\ GameSpeed # 0
    /\ \A l \in Locals : l # NoPlayer => l \in Players
  BY SyncAssumption

-----------------------------------------------------------------------------
(* The operators of the check                                              *)

\* The last message is about the frame it was about before, or about a frame to be
\* reported; if there is none, it stays.
LEMMA LastMessageFacts ==
    ASSUME serverFrameNum + 1 \in Nat, NEW last, NEW bad
    PROVE  /\ LastMessage(last, bad) \in {last} \cup bad
           /\ bad = {} => LastMessage(last, bad) = last
<1> DEFINE S == {last} \cup bad
           next(n, m) == IF Announces(m, bad \cap {n}) THEN n ELSE m
           row(n) == [m \in S |-> next(n, m)]
           step == [n \in Nat |-> row(n)]
           after == CHOOSE a : a = [n \in Nat |-> IF n = 0 THEN last ELSE next(n - 1, a[n - 1])]
<1>1. \A n, m : next(n, m) # m => n \in bad /\ next(n, m) = n
  BY DEF Announces
<1> HIDE DEF next
<1>2. step \in StepFunctions(S)
  <2>1. \A n \in Nat, m \in S : next(n, m) \in S
    BY <1>1
  <2>2. \A n \in Nat : row(n) \in [S -> S]
    BY <2>1
  <2> HIDE DEF row
  <2> QED
    BY <2>2 DEF StepFunctions
<1>3. PICK g : Recurs(g, S, last, step)
  <2>1. last \in S
    OBVIOUS
  <2> HIDE DEF S, step
  <2> QED
    BY <1>2, <2>1, Recursion, Zenon
<1>4. \A n \in Nat, m \in S : step[n][m] = next(n, m)
  OBVIOUS
<1> HIDE DEF step
<1>5. g = [n \in Nat |-> IF n = 0 THEN last ELSE next(n - 1, g[n - 1])]
  <2>1. ASSUME NEW n \in Nat, n # 0
        PROVE  g[n] = next(n - 1, g[n - 1])
    <3>1. n - 1 \in Nat /\ (n - 1) + 1 = n /\ g[n - 1] \in S
      BY <1>3, <2>1 DEF Recurs
    <3>2. g[(n - 1) + 1] = step[n - 1][g[n - 1]]
      BY <1>3, <3>1 DEF Recurs
    <3>3. step[n - 1][g[n - 1]] = next(n - 1, g[n - 1])
      BY <1>4, <3>1
    <3> QED
      BY <3>1, <3>2, <3>3
  <2> QED
    BY <1>3, <2>1 DEF Recurs
<1>6. after = [n \in Nat |-> IF n = 0 THEN last ELSE next(n - 1, after[n - 1])]
  BY <1>5
<1> HIDE DEF after
<1> DEFINE A == {n \in Nat : after[n] \in S /\ (bad = {} => after[n] = last)}
<1>7. 0 \in A
  BY <1>6
<1>8. ASSUME NEW n \in A
      PROVE  n + 1 \in A
  <2>1. n + 1 \in Nat /\ n + 1 # 0 /\ (n + 1) - 1 = n
    OBVIOUS
  <2>2. after[n + 1] = next(n, after[n])
    BY <1>6, <2>1
  <2> QED
    BY <1>1, <2>1, <2>2
<1> HIDE DEF A
<1>9. Nat \subseteq A
  BY <1>7, <1>8, Induction
<1>10. LastMessage(last, bad) = after[serverFrameNum + 1]
  BY DEF LastMessage, after, next
<1> QED
  BY <1>9, <1>10 DEF A

\* The answers kept of p are those it gave before and those among ms to outstanding frames.
LEMMA StoredFacts ==
    ASSUME NEW p, NEW ms
    PROVE  /\ Answered(p) \subseteq DOMAIN Stored(p, ms)
           /\ \A m \in ms, f \in outstandingSyncFrames :
                 IsResponse(m, f) => f \in DOMAIN Stored(p, ms)
           /\ \A f \in DOMAIN Stored(p, ms) :
                 \/ f \in Answered(p) /\ Stored(p, ms)[f] = syncResponse[p][f]
                 \/ /\ f \in outstandingSyncFrames
                    /\ \E m \in ms : IsResponse(m, f) /\ Stored(p, ms)[f] = m.checksum
<1> DEFINE new == {m \in ms : m.type = "response" /\ m.frame \in outstandingSyncFrames}
           D == Answered(p) \cup {m.frame : m \in new}
           val(f) == IF \E m \in new : m.frame = f
                     THEN (CHOOSE m \in new : m.frame = f).checksum
                     ELSE syncResponse[p][f]
<1>1. Stored(p, ms) = [f \in D |-> val(f)]
  BY DEF Stored
<1>2. \A m \in ms, f \in outstandingSyncFrames : IsResponse(m, f) => f \in D
  BY DEF IsResponse
<1>3. ASSUME NEW f \in D
      PROVE  \/ f \in Answered(p) /\ val(f) = syncResponse[p][f]
             \/ /\ f \in outstandingSyncFrames
                /\ \E m \in ms : IsResponse(m, f) /\ val(f) = m.checksum
  <2>1. CASE \E m \in new : m.frame = f
    <3> DEFINE m == CHOOSE m \in new : m.frame = f
    <3>1. m \in new /\ m.frame = f
      BY <2>1
    <3>2. val(f) = m.checksum
      BY <2>1
    <3> QED
      BY <3>1, <3>2 DEF IsResponse
  <2>2. CASE ~ \E m \in new : m.frame = f
    BY <2>2
  <2> QED
    BY <2>1, <2>2
<1>4. Answered(p) \subseteq D
  OBVIOUS
<1>5. DOMAIN Stored(p, ms) = D /\ \A f \in D : Stored(p, ms)[f] = val(f)
  BY <1>1
<1> HIDE DEF D, val
<1> QED
  BY <1>2, <1>3, <1>4, <1>5

-----------------------------------------------------------------------------
(* Each step preserves IndInv.                                             *)

\* A step that changes nothing of a seat and no frame leaves what is said of it.
LEMMA SeatUnchanged ==
    ASSUME NEW p \in Players, SeatInv(p), UNCHANGED frames,
           UNCHANGED <<link[p], syncResponse[p], lastFrameResponse[p],
                       frameNum[p], checksum[p], inbox[p]>>
    PROVE  SeatInv(p)'
  BY DEF SeatInv, SilentInv, HeardInv, OrderInv, TruthInv, Known, Answered, frames

\* The inductive invariant holds initially.
LEMMA InitIndInv == Init => IndInv
<1> SUFFICES ASSUME Init PROVE IndInv
  OBVIOUS
<1> USE SyncAssumption DEF Init, Players, NoPlayer
<1>1. \A p \in Players : Answered(p) = {} /\ Len(inbox[p]) = 0
  BY DEF Answered, NoAnswers
<1>2. TypeOK
  <2>1. /\ -1 \in -1..MaxFrame /\ 0 \in 0..MaxFrame /\ -1 \in -1..serverFrameNum
        /\ \A p \in Players : DOMAIN inbox[p] = {}
    OBVIOUS
  <2> QED
    BY <1>1, <2>1 DEF TypeOK
<1>3. Shapes
  BY DEF Shapes
<1>4. MemoryBounded /\ ReportInv
  BY <1>1 DEF MemoryBounded, ReportInv
<1>5. HostInv
  BY DEF HostInv
<1>6. \A p \in Players : SeatInv(p)
  BY <1>1 DEF SeatInv, SilentInv, HeardInv, OrderInv, TruthInv
<1> QED
  BY <1>2, <1>3, <1>4, <1>5, <1>6 DEF IndInv

\* The answer to a frame names that frame only and ends with the checksum.
LEMMA AnswerFacts ==
    ASSUME NEW f \in Nat, NEW c \in Checksums
    PROVE  /\ Answer(f, c) \in Seq(Message) /\ Len(Answer(f, c)) \in {1, 2}
           /\ \A i \in 1..Len(Answer(f, c)) : Answer(f, c)[i].frame = f
           /\ IsResponse(Answer(f, c)[Len(Answer(f, c))], f)
           /\ \A i \in 1..Len(Answer(f, c)) :
                 Answer(f, c)[i].type = "response" => Answer(f, c)[i].checksum = c
<1>1. Key(f) \in Message /\ Response(f, c) \in Message
  BY DEF Message, Key, Response
<1>2. /\ Key(f).type = "keyframe" /\ Key(f).frame = f
      /\ Response(f, c).type = "response" /\ Response(f, c).frame = f
      /\ Response(f, c).checksum = c
  BY DEF Key, Response
<1>3. CASE f % KeyframeInterval = 0
  <2> DEFINE k == Key(f)
             r == Response(f, c)
  <2>1. Answer(f, c) = <<k>> \o <<r>>
    BY <1>3 DEF Answer
  <2>2. k \in Message /\ r \in Message
    BY <1>1
  <2> HIDE DEF k, r
  <2>3. /\ <<k>> \o <<r>> \in Seq(Message) /\ Len(<<k>> \o <<r>>) = 2
        /\ (<<k>> \o <<r>>)[1] = k /\ (<<k>> \o <<r>>)[2] = r
    BY <2>2
  <2> QED
    BY <1>1, <1>2, <2>1, <2>3 DEF IsResponse, k, r
<1>4. CASE f % KeyframeInterval # 0
  <2>1. Answer(f, c) = <<Response(f, c)>>
    BY <1>1, <1>4 DEF Answer
  <2> QED
    BY <1>1, <1>2, <2>1 DEF IsResponse
<1> QED
  BY <1>3, <1>4

\* SimFrame: the messages of a frame follow all those of earlier frames.
LEMMA SimFramePreserves ==
    ASSUME IndInv, NEW p \in Players, SimFrame(p)
    PROVE  IndInv'
<1> DEFINE f == frameNum[p] + 1
           ms == Answer(f, checksum[p])
           L == Len(inbox[p])
<1> USE DEF IndInv
<1>1. /\ link[p] = "up" /\ f \in Nat /\ f <= serverFrameNum
      /\ serverFrameNum \in Int /\ checksum[p] \in Checksums
      /\ inbox[p] \in Seq(Message) /\ L \in Nat
      /\ frameNum[p] \in Int /\ f = frameNum[p] + 1 /\ L = Len(inbox[p])
  BY DEF SimFrame, TypeOK, Shapes
<1>2. inbox'[p] = inbox[p] \o ms /\ frameNum'[p] = f
  BY DEF SimFrame, TypeOK, Shapes
<1>3. \A q \in Players : q # p => inbox'[q] = inbox[q] /\ frameNum'[q] = frameNum[q]
  BY DEF SimFrame, TypeOK, Shapes
<1>4. /\ ms \in Seq(Message) /\ Len(ms) \in {1, 2}
      /\ \A i \in 1..Len(ms) : ms[i].frame = f
      /\ IsResponse(ms[Len(ms)], f)
      /\ \A i \in 1..Len(ms) : ms[i].type = "response" => ms[i].checksum = checksum[p]
  BY <1>1, AnswerFacts
<1> HIDE DEF ms
<1>5. /\ inbox'[p] \in Seq(Message)
      /\ Len(inbox'[p]) = L + Len(ms)
      /\ \A i \in 1..L : inbox'[p][i] = inbox[p][i]
      /\ \A i \in 1..Len(inbox'[p]) : i > L => /\ i - L \in 1..Len(ms)
                                               /\ inbox'[p][i] = ms[i - L]
  BY <1>1, <1>2, <1>4
<1> HIDE DEF L, f
<1>6. UNCHANGED <<localClientNumber, serverFrameNum, outstandingSyncFrames, link,
                  syncResponse, lastFrameResponse, desynced, syncErrorFrame,
                  syncWarningFrame, desyncHasOccurred, checksum, joins>>
  BY DEF SimFrame, frames, checks
<1>7. Shapes'
  <2>1. inbox' \in [Players -> Seq(Message)]
    BY <1>5 DEF SimFrame, Shapes
  <2> QED
    BY <2>1, <1>6 DEF Shapes
<1>8. TypeOK'
  <2>1. \A q \in Players : \A i \in DOMAIN inbox'[q] : inbox'[q][i].frame \in 0..frameNum'[q]
    <3>0. DOMAIN inbox[p] = 1..L /\ DOMAIN inbox'[p] = 1..Len(inbox'[p])
      BY <1>1, <1>5
    <3>1. ASSUME NEW i \in 1..Len(inbox'[p])
          PROVE  inbox'[p][i].frame \in 0..f
      <4>1. CASE i <= L
        <5>1. inbox'[p][i] = inbox[p][i] /\ i \in DOMAIN inbox[p]
          BY <4>1, <3>0, <1>1, <1>5
        <5> QED
          BY <5>1, <1>1 DEF TypeOK
      <4>2. CASE i > L
        <5>1. inbox'[p][i].frame = f
          BY <4>2, <1>4, <1>5
        <5> QED
          BY <5>1, <1>1
      <4> QED
        BY <4>1, <4>2, <1>1
    <3> QED
      BY <3>0, <3>1, <1>2, <1>3 DEF TypeOK
  <2>2. frameNum' \in [Players -> -1..serverFrameNum]
    BY <1>1 DEF SimFrame, TypeOK
  <2> QED
    BY <1>6, <2>1, <2>2 DEF TypeOK, Answered
<1>9. SeatInv(p)'
  <2>1. SilentInv(p)' /\ HeardInv(p)'
    BY <1>1, <1>6 DEF SilentInv, HeardInv, SeatInv
  <2>2. OrderInv(p)'
    <3>1. SUFFICES ASSUME NEW g \in outstandingSyncFrames
                   PROVE  /\ \A i \in 1..Len(inbox'[p]) :
                                g < inbox'[p][i].frame => Known(p, g, i - 1)'
                          /\ g <= f => Known(p, g, Len(inbox[p]))'
      BY <1>1, <1>2, <1>6 DEF OrderInv, SeatInv, Answered
    <3>2. g \in Int /\ OrderInv(p)
      BY <1>1 DEF SeatInv, TypeOK
    <3>3. ASSUME NEW n \in 0..L, NEW k \in Int, Known(p, g, n), n <= k
          PROVE  Known(p, g, k)'
      <4>1. CASE g \in Answered(p)
        BY <4>1, <1>6 DEF Known, Answered
      <4>2. CASE \E j \in 1..n : IsResponse(inbox[p][j], g)
        <5>1. PICK j \in 1..n : IsResponse(inbox[p][j], g)
          BY <4>2
        <5>2. j \in 1..L /\ j \in 1..k
          BY <1>1, <3>3
        <5>3. inbox'[p][j] = inbox[p][j]
          BY <5>2, <1>5
        <5> QED
          BY <5>1, <5>2, <5>3 DEF Known, IsResponse
      <4> QED
        BY <4>1, <4>2, <3>3 DEF Known
    <3>4. ASSUME NEW i \in 1..Len(inbox'[p]), g < inbox'[p][i].frame
          PROVE  Known(p, g, i - 1)'
      <4>1. CASE i <= L
        <5>1. i \in 1..L /\ i - 1 \in 0..L /\ i - 1 <= i - 1
          BY <4>1, <1>1, <1>5
        <5>2. g < inbox[p][i].frame
          BY <5>1, <3>4, <1>5
        <5>3. Known(p, g, i - 1)
          BY <5>1, <5>2, <3>2, <1>1 DEF OrderInv
        <5> QED
          BY <5>1, <5>3, <3>3
      <4>2. CASE i > L
        <5>1. L <= i - 1 /\ i - 1 \in Int
          BY <4>2, <1>1, <1>4, <1>5
        <5>2. g < f
          BY <4>2, <3>4, <1>4, <1>5
        <5>3. g <= frameNum[p]
          BY <5>2, <3>2, <1>1
        <5>4. Known(p, g, L)
          BY <5>3, <3>2, <1>1 DEF OrderInv
        <5> QED
          BY <5>1, <5>4, <3>3, <1>1
      <4> QED
        BY <4>1, <4>2, <1>1
    <3>5. ASSUME g <= f
          PROVE  Known(p, g, Len(inbox[p]))'
      <4>1. CASE g = f
        <5>1. /\ L + Len(ms) \in 1..Len(inbox'[p])
              /\ inbox'[p][L + Len(ms)] = ms[Len(ms)]
          <6> DEFINE M == Len(ms)
          <6>0. M \in 1..2 /\ L \in Nat /\ Len(inbox'[p]) = L + M
            BY <1>1, <1>4, <1>5
          <6> HIDE DEF M
          <6>1. L + M \in 1..Len(inbox'[p]) /\ L + M > L
            BY <6>0
          <6>2. (L + M) - L = M
            BY <6>0
          <6> QED
            BY <6>1, <6>2, <1>5 DEF M
        <5> QED
          BY <5>1, <4>1, <1>4 DEF Known
      <4>2. CASE g # f
        <5>1. g <= frameNum[p]
          BY <4>2, <3>2, <3>5, <1>1
        <5>2. Known(p, g, L)
          BY <5>1, <3>2, <1>1 DEF OrderInv
        <5>3. Len(inbox'[p]) \in Int /\ L <= Len(inbox'[p])
          BY <1>1, <1>4, <1>5
        <5> QED
          BY <5>2, <5>3, <3>3, <1>1
      <4> QED
        BY <4>1, <4>2
    <3> QED
      BY <3>4, <3>5
  <2>3. TruthInv(p)'
    <3>1. SUFFICES ASSUME checksum[p] = Correct, NEW i \in 1..Len(inbox'[p]),
                          inbox'[p][i].type = "response"
                   PROVE  inbox'[p][i].checksum = Correct
      BY <1>6 DEF TruthInv, SeatInv, Answered
    <3>2. CASE i <= L
      <4>1. i \in 1..L /\ inbox'[p][i] = inbox[p][i]
        BY <3>1, <3>2, <1>1, <1>5
      <4>2. TruthInv(p)
        BY DEF SeatInv
      <4> QED
        BY <3>1, <4>1, <4>2, <1>1 DEF TruthInv
    <3>3. CASE i > L
      BY <3>1, <3>3, <1>4, <1>5
    <3> QED
      BY <3>2, <3>3, <1>1
  <2> QED
    BY <2>1, <2>2, <2>3 DEF SeatInv
<1>10. ASSUME NEW q \in Players, q # p
       PROVE  SeatInv(q)'
  BY <1>3, <1>6, <1>10, SeatUnchanged DEF frames
<1>11. MemoryBounded' /\ HostInv' /\ ReportInv'
  BY <1>6 DEF MemoryBounded, HostInv, ReportInv, Answered
<1> QED
  BY <1>7, <1>8, <1>9, <1>10, <1>11

\* ProcessPacket and PeekPackets: the answers among the first n messages of p are stored,
\* the last of the n is heard, and the first k of them are removed.
LEMMA HearingPreserves ==
    ASSUME IndInv, NEW p \in Players, link[p] = "up",
           NEW n \in 1..Len(inbox[p]), NEW k \in 0..n,
           syncResponse' = [syncResponse EXCEPT
                               ![p] = Stored(p, {inbox[p][i] : i \in 1..n})],
           Heard(p, inbox[p][n].frame),
           inbox' \in [Players -> Seq(Message)],
           \A q \in Players : q # p => inbox'[q] = inbox[q],
           Len(inbox'[p]) = Len(inbox[p]) - k,
           \A i \in 1..Len(inbox'[p]) : inbox'[p][i] = inbox[p][i + k],
           UNCHANGED <<localClientNumber, frames, link, checks, clients, joins>>
    PROVE  IndInv'
<1> DEFINE ms == {inbox[p][i] : i \in 1..n}
           L == Len(inbox[p])
           f == inbox[p][n].frame
<1> USE DEF IndInv
<1>1. /\ inbox[p] \in Seq(Message) /\ L \in Nat /\ L = Len(inbox[p])
      /\ n \in 1..L /\ inbox[p][n] \in Message /\ f \in Nat /\ f = inbox[p][n].frame
      /\ \A i \in 1..L : inbox[p][i] \in Message
      /\ serverFrameNum \in Int
      /\ OrderInv(p) /\ TruthInv(p) /\ HeardInv(p)
  <2>1. inbox[p] \in Seq(Message)
    BY DEF Shapes
  <2>2. L \in Nat /\ n \in 1..L /\ \A i \in 1..L : inbox[p][i] \in Message
    BY <2>1
  <2>3. serverFrameNum \in Int
    BY ConstantTypes DEF TypeOK
  <2> QED
    BY <2>1, <2>2, <2>3 DEF SeatInv, Message
<1>2. UNCHANGED <<localClientNumber, serverFrameNum, outstandingSyncFrames, link,
                  desynced, syncErrorFrame, syncWarningFrame, desyncHasOccurred,
                  frameNum, checksum, joins>>
  BY DEF frames, checks, clients
<1>3. /\ DOMAIN syncResponse' = Players
      /\ syncResponse'[p] = Stored(p, ms)
      /\ \A q \in Players : q # p => syncResponse'[q] = syncResponse[q]
  BY DEF Shapes
<1>4. /\ lastFrameResponse' \in [Players -> Nat]
      /\ \A q \in Players : q # p => lastFrameResponse'[q] = lastFrameResponse[q]
      /\ \/ lastFrameResponse'[p] = lastFrameResponse[p]
         \/ /\ lastFrameResponse'[p] = f /\ f <= serverFrameNum
            /\ f > lastFrameResponse[p]
  BY <1>1 DEF Heard, TypeOK
<1>5. /\ Answered(p) \subseteq Answered(p)'
      /\ \A g \in outstandingSyncFrames, j \in 1..n :
            IsResponse(inbox[p][j], g) => g \in Answered(p)'
      /\ \A g \in Answered(p)' :
            \/ g \in Answered(p) /\ syncResponse'[p][g] = syncResponse[p][g]
            \/ /\ g \in outstandingSyncFrames
               /\ \E j \in 1..n : /\ IsResponse(inbox[p][j], g)
                                 /\ syncResponse'[p][g] = inbox[p][j].checksum
  <2>1. Answered(p)' = DOMAIN Stored(p, ms)
    BY <1>3 DEF Answered
  <2>2. \A j \in 1..n : inbox[p][j] \in ms
    OBVIOUS
  <2>3. \A m \in ms : \E j \in 1..n : m = inbox[p][j]
    OBVIOUS
  <2> HIDE DEF ms
  <2>4. /\ Answered(p) \subseteq DOMAIN Stored(p, ms)
        /\ \A m \in ms, g \in outstandingSyncFrames :
              IsResponse(m, g) => g \in DOMAIN Stored(p, ms)
        /\ \A g \in DOMAIN Stored(p, ms) :
              \/ g \in Answered(p) /\ Stored(p, ms)[g] = syncResponse[p][g]
              \/ /\ g \in outstandingSyncFrames
                 /\ \E m \in ms : IsResponse(m, g) /\ Stored(p, ms)[g] = m.checksum
    BY StoredFacts
  <2>5. ASSUME NEW g \in DOMAIN Stored(p, ms), g \in outstandingSyncFrames,
               NEW m \in ms, IsResponse(m, g), Stored(p, ms)[g] = m.checksum
        PROVE  \E j \in 1..n : /\ IsResponse(inbox[p][j], g)
                               /\ Stored(p, ms)[g] = inbox[p][j].checksum
    BY <2>3, <2>5
  <2>6. ASSUME NEW g \in outstandingSyncFrames, NEW j \in 1..n, IsResponse(inbox[p][j], g)
        PROVE  g \in Answered(p)'
    BY <2>1, <2>2, <2>4, <2>6
  <2>7. ASSUME NEW g \in Answered(p)'
        PROVE  \/ g \in Answered(p) /\ syncResponse'[p][g] = syncResponse[p][g]
               \/ /\ g \in outstandingSyncFrames
                  /\ \E j \in 1..n : /\ IsResponse(inbox[p][j], g)
                                    /\ syncResponse'[p][g] = inbox[p][j].checksum
    <3>1. g \in DOMAIN Stored(p, ms) /\ syncResponse'[p][g] = Stored(p, ms)[g]
      BY <1>3, <2>1
    <3>2. CASE g \in Answered(p) /\ Stored(p, ms)[g] = syncResponse[p][g]
      BY <3>1, <3>2
    <3>3. CASE /\ g \in outstandingSyncFrames
               /\ \E m \in ms : IsResponse(m, g) /\ Stored(p, ms)[g] = m.checksum
      BY <3>1, <3>3, <2>5
    <3> QED
      BY <3>1, <3>2, <3>3, <2>4
  <2> QED
    BY <2>1, <2>4, <2>6, <2>7
<1> HIDE DEF L, f, ms
<1>6. Answered(p)' \subseteq outstandingSyncFrames
  BY <1>5 DEF MemoryBounded
<1>7. ASSUME NEW g \in Answered(p)'
      PROVE  /\ syncResponse'[p][g] \in Checksums
             /\ checksum[p] = Correct => syncResponse'[p][g] = Correct
  <2>1. CASE g \in Answered(p) /\ syncResponse'[p][g] = syncResponse[p][g]
    BY <2>1, <1>1 DEF TypeOK, TruthInv
  <2>2. CASE \E j \in 1..n : /\ IsResponse(inbox[p][j], g)
                            /\ syncResponse'[p][g] = inbox[p][j].checksum
    <3>1. PICK j \in 1..n : /\ IsResponse(inbox[p][j], g)
                            /\ syncResponse'[p][g] = inbox[p][j].checksum
      BY <2>2
    <3>2. j \in 1..L /\ inbox[p][j] \in Message /\ inbox[p][j].type = "response"
      BY <3>1, <1>1 DEF IsResponse
    <3>3. inbox[p][j].checksum \in Checksums
      BY <3>2 DEF Message
    <3> QED
      BY <3>1, <3>2, <3>3, <1>1 DEF TruthInv
  <2> QED
    BY <2>1, <2>2, <1>5
<1>8. Shapes'
  BY <1>3 DEF Shapes
<1>9. \A q \in Players : \A i \in DOMAIN inbox'[q] : \E j \in DOMAIN inbox[q] : inbox'[q][i] = inbox[q][j]
  <2>1. ASSUME NEW i \in DOMAIN inbox'[p]
        PROVE  \E j \in DOMAIN inbox[p] : inbox'[p][i] = inbox[p][j]
    <3>1. i \in 1..Len(inbox'[p]) /\ DOMAIN inbox[p] = 1..L
      BY <1>1
    <3>2. i + k \in 1..L
      BY <3>1, <1>1
    <3> QED
      BY <3>1, <3>2
  <2>2. ASSUME NEW q \in Players, q # p
        PROVE  \A i \in DOMAIN inbox'[q] : \E j \in DOMAIN inbox[q] : inbox'[q][i] = inbox[q][j]
    BY <2>2
  <2> QED
    BY <2>1, <2>2
<1>10. TypeOK'
  <2>1. \A q \in Players : /\ Answered(q)' \subseteq 0..serverFrameNum
                           /\ \A g \in Answered(q)' : syncResponse'[q][g] \in Checksums
    <3>1. \A q \in Players : /\ Answered(q) \subseteq 0..serverFrameNum
                             /\ \A g \in Answered(q) : syncResponse[q][g] \in Checksums
      BY DEF TypeOK
    <3>2. outstandingSyncFrames \subseteq 0..serverFrameNum
      BY DEF TypeOK
    <3>3. ASSUME NEW q \in Players, q # p
          PROVE  Answered(q)' = Answered(q) /\ syncResponse'[q] = syncResponse[q]
      BY <1>3, <3>3 DEF Answered
    <3> QED
      BY <1>6, <1>7, <3>1, <3>2, <3>3
  <2>2. \A q \in Players : \A i \in DOMAIN inbox'[q] : inbox'[q][i].frame \in 0..frameNum[q]
    <3>1. \A q \in Players : \A i \in DOMAIN inbox[q] : inbox[q][i].frame \in 0..frameNum[q]
      BY DEF TypeOK
    <3> QED
      BY <1>9, <3>1
  <2> QED
    BY <1>2, <1>4, <2>1, <2>2 DEF TypeOK
<1>11. SeatInv(p)'
  <2>1. SilentInv(p)' /\ HeardInv(p)'
    BY <1>1, <1>2, <1>4 DEF SilentInv, HeardInv
  <2>2. OrderInv(p)'
    <3>1. SUFFICES ASSUME NEW g \in outstandingSyncFrames
                   PROVE  /\ g < lastFrameResponse'[p] => g \in Answered(p)'
                          /\ \A i \in 1..Len(inbox'[p]) :
                                g < inbox'[p][i].frame => Known(p, g, i - 1)'
                          /\ g <= frameNum[p] => Known(p, g, Len(inbox[p]))'
      BY <1>2 DEF OrderInv
    <3>2. /\ g < lastFrameResponse[p] => g \in Answered(p)
          /\ \A i \in 1..L : g < inbox[p][i].frame => Known(p, g, i - 1)
          /\ g <= frameNum[p] => Known(p, g, L)
      BY <1>1 DEF OrderInv
    <3>3. ASSUME NEW m \in 0..Len(inbox'[p]), Known(p, g, m + k)
          PROVE  Known(p, g, m)'
      <4>1. CASE g \in Answered(p)
        BY <4>1, <1>5 DEF Known
      <4>2. CASE g \notin Answered(p)
        <5>1. PICK j \in 1..(m + k) : IsResponse(inbox[p][j], g)
          BY <3>3, <4>2 DEF Known
        <5>2. CASE j <= n
          BY <5>1, <5>2, <1>1, <1>5 DEF Known
        <5>3. CASE j > n
          <6>1. j - k \in 1..m /\ j - k \in 1..Len(inbox'[p]) /\ (j - k) + k = j
            BY <5>3, <1>1
          <6>2. inbox'[p][j - k] = inbox[p][j]
            BY <6>1
          <6> QED
            BY <5>1, <6>1, <6>2 DEF Known
        <5> QED
          BY <5>2, <5>3, <1>1
      <4> QED
        BY <4>1, <4>2
    <3>4. g < lastFrameResponse'[p] => g \in Answered(p)'
      <4>1. CASE g < f
        <5>1. Known(p, g, n - 1)
          BY <4>1, <3>2, <1>1
        <5> QED
          BY <5>1, <1>1, <1>5 DEF Known
      <4> QED
        BY <4>1, <3>2, <1>4, <1>5
    <3>5. ASSUME NEW i \in 1..Len(inbox'[p]), g < inbox'[p][i].frame
          PROVE  Known(p, g, i - 1)'
      <4>1. i + k \in 1..L /\ i - 1 \in 0..Len(inbox'[p]) /\ (i - 1) + k = (i + k) - 1
        BY <1>1
      <4>2. Known(p, g, (i + k) - 1)
        BY <4>1, <3>2, <3>5
      <4> QED
        BY <4>1, <4>2, <3>3
    <3>6. ASSUME g <= frameNum[p]
          PROVE  Known(p, g, Len(inbox[p]))'
      <4>1. Len(inbox'[p]) + k = L /\ Len(inbox'[p]) \in 0..Len(inbox'[p])
        BY <1>1
      <4>2. Known(p, g, Len(inbox'[p]) + k)
        BY <4>1, <3>2, <3>6
      <4> QED
        BY <4>1, <4>2, <3>3
    <3> QED
      BY <3>4, <3>5, <3>6
  <2>3. TruthInv(p)'
    <3>1. \A i \in 1..Len(inbox'[p]) : i + k \in 1..L
      BY <1>1
    <3>2. ASSUME checksum[p] = Correct, NEW i \in 1..Len(inbox'[p]), inbox'[p][i].type = "response"
          PROVE  inbox'[p][i].checksum = Correct
      <4>1. i + k \in 1..L /\ inbox'[p][i] = inbox[p][i + k]
        BY <3>1
      <4> QED
        BY <3>2, <4>1, <1>1 DEF TruthInv
    <3>3. checksum' = checksum
      BY <1>2
    <3> QED
      BY <3>2, <3>3, <1>7 DEF TruthInv
  <2> QED
    BY <2>1, <2>2, <2>3 DEF SeatInv
<1>12. ASSUME NEW q \in Players, q # p
       PROVE  SeatInv(q)'
  BY <1>2, <1>3, <1>4, <1>12, SeatUnchanged DEF frames
<1>13. MemoryBounded' /\ ReportInv'
  BY <1>2, <1>3, <1>6 DEF MemoryBounded, ReportInv, Answered
<1>14. HostInv'
  <2>1. SUFFICES ASSUME localClientNumber # NoPlayer, BoundedLag
                 PROVE  serverFrameNum - lastFrameResponse'[localClientNumber] <= SyncCheckTimeout
    BY <1>2 DEF HostInv
  <2>2. localClientNumber \in Players
    BY <2>1, ConstantTypes DEF TypeOK
  <2>3. /\ lastFrameResponse[localClientNumber] \in Int
        /\ lastFrameResponse'[localClientNumber] \in Int
        /\ lastFrameResponse'[localClientNumber] >= lastFrameResponse[localClientNumber]
    <3>1. lastFrameResponse \in [Players -> Nat]
      BY DEF TypeOK
    <3>2. CASE localClientNumber = p
      BY <3>1, <3>2, <1>1, <1>4
    <3>3. CASE localClientNumber # p
      BY <2>2, <3>1, <3>3, <1>4
    <3> QED
      BY <3>2, <3>3
  <2>4. serverFrameNum - lastFrameResponse[localClientNumber] <= SyncCheckTimeout
    BY <2>1 DEF HostInv
  <2>5. SyncCheckTimeout \in Int
    BY ConstantTypes
  <2> QED
    BY <2>3, <2>4, <2>5, <1>1
<1> QED
  BY <1>8, <1>10, <1>11, <1>12, <1>13, <1>14

\* Taking the first message of a player (ProcessPacket) preserves the invariant.
LEMMA ProcessPacketPreserves ==
    ASSUME IndInv, NEW p \in Players, ProcessPacket(p)
    PROVE  IndInv'
<1>1. inbox[p] \in Seq(Message) /\ inbox[p] # <<>> /\ link[p] = "up"
  BY DEF IndInv, Shapes, ProcessPacket
<1>2. /\ 1 \in 1..Len(inbox[p]) /\ 1 \in 0..1 /\ Head(inbox[p]) = inbox[p][1]
      /\ Tail(inbox[p]) \in Seq(Message)
      /\ Len(Tail(inbox[p])) = Len(inbox[p]) - 1
      /\ \A i \in 1..Len(Tail(inbox[p])) : Tail(inbox[p])[i] = inbox[p][i + 1]
  BY <1>1
<1>3. /\ inbox' \in [Players -> Seq(Message)] /\ inbox'[p] = Tail(inbox[p])
      /\ \A q \in Players : q # p => inbox'[q] = inbox[q]
  BY <1>2 DEF IndInv, Shapes, ProcessPacket
<1>4. {inbox[p][i] : i \in 1..1} = {inbox[p][1]}
  OBVIOUS
<1>5. syncResponse' = [syncResponse EXCEPT ![p] = Stored(p, {inbox[p][i] : i \in 1..1})]
  BY <1>2, <1>4 DEF ProcessPacket
<1>6. Heard(p, inbox[p][1].frame)
  BY <1>2 DEF ProcessPacket
<1>7. UNCHANGED <<localClientNumber, frames, link, checks, clients, joins>>
  BY DEF ProcessPacket
<1> QED
  BY <1>1, <1>2, <1>3, <1>5, <1>6, <1>7, HearingPreserves

\* Looking at all messages of a player, which stay in the queue (ServerReadNet above the
\* bandwidth limit), preserves it.
LEMMA PeekPacketsPreserves ==
    ASSUME IndInv, NEW p \in Players, PeekPackets(p)
    PROVE  IndInv'
<1> DEFINE L == Len(inbox[p])
<1>1. inbox[p] \in Seq(Message) /\ inbox[p] # <<>> /\ link[p] = "up"
  BY DEF IndInv, Shapes, PeekPackets
<1>2. /\ L \in 1..L /\ 0 \in 0..L /\ DOMAIN inbox[p] = 1..L
      /\ L = L - 0 /\ \A i \in 1..L : i + 0 = i
  BY <1>1
<1>3. inbox' \in [Players -> Seq(Message)] /\ inbox' = inbox
  BY DEF IndInv, Shapes, PeekPackets
<1>4. syncResponse' = [syncResponse EXCEPT ![p] = Stored(p, {inbox[p][i] : i \in 1..L})]
  BY <1>2 DEF PeekPackets
<1>5. Heard(p, inbox[p][L].frame)
  BY DEF PeekPackets
<1>6. UNCHANGED <<localClientNumber, frames, link, checks, clients, joins>>
  BY DEF PeekPackets
<1>7. /\ Len(inbox'[p]) = L - 0
      /\ \A i \in 1..Len(inbox'[p]) : inbox'[p][i] = inbox[p][i + 0]
  BY <1>2, <1>3
<1> HIDE DEF L
<1> QED
  BY <1>1, <1>2, <1>3, <1>4, <1>5, <1>6, <1>7, HearingPreserves DEF L

\* A client whose game state becomes another preserves it.
LEMMA DivergePreserves ==
    ASSUME IndInv, NEW p \in Players, Diverge(p)
    PROVE  IndInv'
<1> USE DEF IndInv
<1>1. /\ UNCHANGED <<localClientNumber, serverFrameNum, outstandingSyncFrames, link,
                     syncResponse, lastFrameResponse, desynced, syncErrorFrame,
                     syncWarningFrame, desyncHasOccurred, frameNum, inbox, joins>>
      /\ checksum' \in [Players -> Checksums] /\ checksum'[p] # Correct
      /\ \A q \in Players : q # p => checksum'[q] = checksum[q]
  BY DEF Diverge, frames, checks, TypeOK
<1>2. TypeOK' /\ Shapes'
  BY <1>1 DEF TypeOK, Shapes, Answered
<1>3. SeatInv(p)'
  BY <1>1 DEF SeatInv, SilentInv, HeardInv, OrderInv, TruthInv, Known, Answered
<1>4. ASSUME NEW q \in Players, q # p
      PROVE  SeatInv(q)'
  BY <1>1, <1>4, SeatUnchanged DEF frames
<1>5. MemoryBounded' /\ HostInv' /\ ReportInv'
  BY <1>1 DEF MemoryBounded, HostInv, ReportInv, Answered
<1> QED
  BY <1>2, <1>3, <1>4, <1>5

\* The end of a pause, after which sync errors are reported again, preserves it.
LEMMA UnpausePreserves ==
    ASSUME IndInv, Unpause
    PROVE  IndInv'
<1> USE DEF IndInv
<1>1. /\ UNCHANGED <<localClientNumber, serverFrameNum, outstandingSyncFrames, link,
                     syncResponse, lastFrameResponse, desynced, syncWarningFrame,
                     desyncHasOccurred, frameNum, checksum, inbox, joins>>
      /\ syncErrorFrame' = 0
  BY DEF Unpause, frames, clients
<1>2. TypeOK' /\ Shapes'
  BY <1>1, ConstantTypes DEF TypeOK, Shapes, Answered
<1>3. \A q \in Players : SeatInv(q)'
  BY <1>1, SeatUnchanged DEF frames
<1>4. MemoryBounded' /\ HostInv' /\ ReportInv'
  BY <1>1 DEF MemoryBounded, HostInv, ReportInv, Answered
<1> QED
  BY <1>2, <1>3, <1>4

\* Kill, CheckForExpiredConnection, Connected and Adopt: the seat of p holds no messages
\* and no answers, and if a client is heard it has yet to simulate its first frame.
LEMMA SeatEmptiedPreserves ==
    ASSUME IndInv, NEW p \in Players, p # localClientNumber,
           link' \in [Players -> {"none", "up", "closing", "adopted"}],
           DOMAIN syncResponse' = Players, Answered(p)' = {},
           lastFrameResponse' \in [Players -> Nat],
           lastFrameResponse'[p] \in {lastFrameResponse[p], 0},
           frameNum' \in [Players -> -1..serverFrameNum],
           checksum' \in [Players -> Checksums],
           inbox' \in [Players -> Seq(Message)], inbox'[p] = <<>>,
           joins' \in Nat,
           link'[p] = "up" => lastFrameResponse'[p] = 0 /\ frameNum'[p] = -1,
           \A q \in Players : q # p =>
              UNCHANGED <<link[q], syncResponse[q], lastFrameResponse[q],
                          frameNum[q], checksum[q], inbox[q]>>,
           UNCHANGED <<localClientNumber, frames, checks>>
    PROVE  IndInv'
<1> USE DEF IndInv
<1>1. UNCHANGED <<localClientNumber, serverFrameNum, outstandingSyncFrames,
                  desynced, syncErrorFrame, syncWarningFrame, desyncHasOccurred>>
  BY DEF frames, checks
<1>2. Len(inbox'[p]) = 0 /\ DOMAIN inbox'[p] = {}
  OBVIOUS
<1>3. Shapes'
  BY DEF Shapes
<1>4. \A f \in outstandingSyncFrames : f \in Nat
  BY DEF TypeOK
<1>5. TypeOK'
  <2>1. \A q \in Players :
          /\ Answered(q)' \subseteq 0..serverFrameNum
          /\ \A f \in Answered(q)' : syncResponse'[q][f] \in Checksums
          /\ \A i \in DOMAIN inbox'[q] : inbox'[q][i].frame \in 0..frameNum'[q]
    BY <1>2 DEF TypeOK, Answered
  <2> QED
    BY <1>1, <2>1 DEF TypeOK
<1>6. SeatInv(p)'
  <2>1. SilentInv(p)' /\ TruthInv(p)'
    BY <1>2 DEF SilentInv, TruthInv
  <2>2. HeardInv(p)'
    BY <1>1 DEF SeatInv, HeardInv
  <2>3. OrderInv(p)'
    BY <1>1, <1>2, <1>4 DEF OrderInv
  <2> QED
    BY <2>1, <2>2, <2>3 DEF SeatInv
<1>7. ASSUME NEW q \in Players, q # p
      PROVE  SeatInv(q)'
  BY <1>7, SeatUnchanged
<1>8. MemoryBounded' /\ ReportInv'
  BY <1>1 DEF MemoryBounded, ReportInv, Answered
<1>9. HostInv'
  BY <1>1, ConstantTypes DEF HostInv, TypeOK
<1> QED
  BY <1>3, <1>5, <1>6, <1>7, <1>8, <1>9

\* What happens to connections preserves it: Kill, CheckForExpiredConnection, a new client
\* of a seat, and the handing over of a link that is being closed.
LEMMA SeatsPreserve ==
    ASSUME IndInv, NEW p \in Players,
           \/ \E flush \in BOOLEAN : Kill(p, flush)
           \/ CheckForExpiredConnection(p)
           \/ Connected(p)
           \/ Adopt(p)
    PROVE  IndInv'
<1> DEFINE Goal ==
      /\ p # localClientNumber
      /\ link' \in [Players -> {"none", "up", "closing", "adopted"}]
      /\ DOMAIN syncResponse' = Players /\ Answered(p)' = {}
      /\ lastFrameResponse' \in [Players -> Nat]
      /\ lastFrameResponse'[p] \in {lastFrameResponse[p], 0}
      /\ frameNum' \in [Players -> -1..serverFrameNum]
      /\ checksum' \in [Players -> Checksums]
      /\ inbox' \in [Players -> Seq(Message)] /\ inbox'[p] = <<>>
      /\ joins' \in Nat
      /\ link'[p] = "up" => lastFrameResponse'[p] = 0 /\ frameNum'[p] = -1
      /\ \A q \in Players : q # p =>
            UNCHANGED <<link[q], syncResponse[q], lastFrameResponse[q],
                        frameNum[q], checksum[q], inbox[q]>>
      /\ UNCHANGED <<localClientNumber, frames, checks>>
<1>1. /\ link \in [Players -> {"none", "up", "closing", "adopted"}]
      /\ lastFrameResponse \in [Players -> Nat]
      /\ frameNum \in [Players -> -1..serverFrameNum]
      /\ serverFrameNum \in Int /\ -1 \in -1..serverFrameNum
      /\ checksum \in [Players -> Checksums] /\ joins \in Nat
      /\ DOMAIN syncResponse = Players /\ inbox \in [Players -> Seq(Message)]
      /\ <<>> \in Seq(Message) /\ DOMAIN NoAnswers = {} /\ Correct \in Checksums
      /\ p # NoPlayer
  <2>1. DOMAIN NoAnswers = {} /\ Correct \in Checksums /\ p # NoPlayer
    BY SyncAssumption DEF NoAnswers, Players, NoPlayer
  <2>2. DOMAIN syncResponse = Players /\ inbox \in [Players -> Seq(Message)]
    BY DEF IndInv, Shapes
  <2>3. serverFrameNum \in Int /\ -1 \in -1..serverFrameNum
    BY DEF IndInv, TypeOK
  <2> QED
    BY <2>1, <2>2, <2>3 DEF IndInv, TypeOK
<1>2. link[p] # "up" => inbox[p] = <<>> /\ Answered(p) = {} /\ p # localClientNumber
  BY <1>1 DEF IndInv, SeatInv, SilentInv, HostInv
<1>3. ASSUME NEW flush \in BOOLEAN, Kill(p, flush)
      PROVE  Goal
  BY <1>1, <1>3 DEF Kill, Answered, clients
<1>4. CASE CheckForExpiredConnection(p)
  <2>1. Goal
    BY <1>1, <1>2, <1>4 DEF CheckForExpiredConnection, Answered, clients
  <2> QED
    BY <2>1, SeatEmptiedPreserves
<1>5. CASE Connected(p)
  <2>1. Goal
    BY <1>1, <1>5 DEF Connected, Answered
  <2> QED
    BY <2>1, SeatEmptiedPreserves
<1>6. CASE Adopt(p)
  <2>1. Goal
    BY <1>1, <1>2, <1>6 DEF Adopt, Answered, clients
  <2> QED
    BY <2>1, SeatEmptiedPreserves
<1>7. CASE \E flush \in BOOLEAN : Kill(p, flush)
  BY <1>3, <1>7, SeatEmptiedPreserves
<1> QED
  BY <1>4, <1>5, <1>6, <1>7

\* A pass does not leave the host further behind than frames are waited for: it creates
\* few frames, or fewer the further the host is behind.
LEMMA LagBounded ==
    ASSUME BoundedLag, NEW behind \in Int, -1 <= behind, behind <= SyncCheckTimeout,
           NEW r \in SimRates, NEW n \in 0..MaxNewFrames,
           n <= (r * (IF behind < GameSpeed THEN GameSpeed - behind ELSE 0)) \div GameSpeed
    PROVE  behind + n <= SyncCheckTimeout
<1> DEFINE g == GameSpeed
           T == SyncCheckTimeout
<1>1. /\ g \in Nat /\ g >= 1 /\ T \in Nat /\ MaxNewFrames \in Nat
      /\ r \in Nat /\ r >= g /\ n \in Nat
  BY ConstantTypes, SyncAssumption
<1>2. CASE behind >= g
  <2>1. (r * 0) \div g = 0
    BY <1>1
  <2> QED
    BY <1>1, <1>2, <2>1
<1>3. CASE behind < g /\ g - 1 + MaxNewFrames <= T
  BY <1>1, <1>3
<1>4. CASE behind < g /\ r + r \div g - 1 <= T
  <2>1. n <= (r * (g - behind)) \div g
    BY <1>4
  <2>2. CASE behind = -1
    <3>1. r * (g - behind) = r * g + r
      BY <2>2, <1>1
    <3>2. (r * g + r) \div g = r + r \div g
      BY <1>1
    <3> QED
      BY <2>1, <2>2, <3>1, <3>2, <1>1, <1>4
  <2>3. CASE behind >= 0
    <3>1. r * behind >= g * behind
      BY <1>1, <2>3
    <3>2. r * (g - behind) <= g * (r - behind)
      BY <1>1, <2>3, <3>1
    <3>3. (r * (g - behind)) \div g <= r - behind
      BY <1>1, <3>2
    <3>4. r \div g >= 1
      BY <1>1
    <3> QED
      BY <2>1, <2>3, <3>3, <3>4, <1>1, <1>4
  <2> QED
    BY <2>2, <2>3
<1> QED
  BY <1>1, <1>2, <1>3, <1>4 DEF BoundedLag

\* CreateNewFrame: of the outstanding frames those are left that somebody has yet to answer
\* in time, and what is known of these stays.
LEMMA CreateNewFramePreserves ==
    ASSUME IndInv, NEW n \in 0..MaxNewFrames, CreateNewFrame(n)
    PROVE  IndInv'
<1> USE DEF IndInv
<1>1. /\ UNCHANGED <<localClientNumber, link, lastFrameResponse, frameNum, checksum,
                     inbox, joins>>
      /\ CheckSync /\ NewFrames(n)
  BY DEF CreateNewFrame, clients
<1>2. /\ serverFrameNum \in Int /\ -1 <= serverFrameNum /\ serverFrameNum + 1 \in Nat
      /\ n \in Nat /\ n <= MaxNewFrames /\ MaxNewFrames \in Nat
      /\ SyncCheckTimeout \in Nat /\ MaxFrame \in Nat
      /\ serverFrameNum' = serverFrameNum + n /\ serverFrameNum + n <= MaxFrame
      /\ outstandingSyncFrames \subseteq 0..serverFrameNum
  BY <1>1, ConstantTypes DEF NewFrames, TypeOK
<1>3. /\ \A f \in outstandingSyncFrames \ Settled : f \in outstandingSyncFrames'
      /\ \A f \in outstandingSyncFrames' :
            \/ f \in outstandingSyncFrames /\ f \notin Settled
            \/ f \in Int /\ serverFrameNum < f /\ f <= serverFrameNum'
  BY <1>1, <1>2 DEF NewFrames
<1>4. /\ DOMAIN syncResponse' = Players
      /\ \A p \in Players :
            /\ \A f \in Answered(p)' :
                  /\ f \in Answered(p) /\ syncResponse'[p][f] = syncResponse[p][f]
                  /\ p \in Linked => f \notin Settled
            /\ \A f \in Answered(p) : f \notin Settled => f \in Answered(p)'
  BY <1>1 DEF CheckSync, Answered
<1>5. Shapes'
  BY <1>1, <1>4 DEF Shapes
<1>6. /\ syncErrorFrame' = LastMessage(syncErrorFrame, Errors)
      /\ syncWarningFrame' = LastMessage(syncWarningFrame, Warnings)
      /\ desyncHasOccurred' = (desyncHasOccurred \/ Announces(syncErrorFrame, Errors))
      /\ desynced' = [p \in Players |-> Verdict(p)]
  BY <1>1 DEF CheckSync
<1>7. TypeOK'
  <2>1. \A p \in Players :
          /\ Answered(p)' \subseteq 0..serverFrameNum'
          /\ \A f \in Answered(p)' : syncResponse'[p][f] \in Checksums
    <3>1. \A p \in Players : /\ Answered(p) \subseteq 0..serverFrameNum
                             /\ \A f \in Answered(p) : syncResponse[p][f] \in Checksums
      BY DEF TypeOK
    <3> QED
      BY <3>1, <1>2, <1>4
  <2>2. outstandingSyncFrames' \subseteq 0..serverFrameNum'
    <3>1. \A f \in outstandingSyncFrames : f \in Int /\ 0 <= f /\ f <= serverFrameNum
      BY <1>2
    <3>2. ASSUME NEW f \in outstandingSyncFrames'
          PROVE  f \in 0..serverFrameNum'
      <4>1. CASE f \in outstandingSyncFrames
        BY <4>1, <3>1, <1>2
      <4>2. CASE f \in Int /\ serverFrameNum < f /\ f <= serverFrameNum'
        BY <4>2, <1>2
      <4> QED
        BY <4>1, <4>2, <1>3
    <3> QED
      BY <3>2
  <2>3. {syncErrorFrame', syncWarningFrame'} \subseteq 0..MaxFrame
    <3>1. Errors \subseteq 0..MaxFrame /\ Warnings \subseteq 0..MaxFrame
      <4>1. 0..serverFrameNum \subseteq 0..MaxFrame
        BY <1>2
      <4>2. Errors \subseteq outstandingSyncFrames /\ Warnings \subseteq outstandingSyncFrames
        BY DEF Errors, Warnings
      <4> QED
        BY <4>1, <4>2, <1>2
    <3>2. syncErrorFrame \in 0..MaxFrame /\ syncWarningFrame \in 0..MaxFrame
      BY DEF TypeOK
    <3>3. /\ syncErrorFrame' \in {syncErrorFrame} \cup Errors
          /\ syncWarningFrame' \in {syncWarningFrame} \cup Warnings
      BY <1>2, <1>6, LastMessageFacts
    <3> QED
      BY <3>1, <3>2, <3>3
  <2>4. desynced' \in [Players -> BOOLEAN]
    <3>1. desynced \in [Players -> BOOLEAN]
      BY DEF TypeOK
    <3>2. \A p \in Players : Verdict(p) \in BOOLEAN
      BY <3>1 DEF Verdict
    <3> HIDE DEF Verdict
    <3> QED
      BY <3>2, <1>6
  <2>5. desyncHasOccurred' \in BOOLEAN
    BY <1>6
  <2>6. frameNum \in [Players -> -1..serverFrameNum']
    <3>1. frameNum \in [Players -> -1..serverFrameNum]
      BY DEF TypeOK
    <3> QED
      BY <3>1, <1>2
  <2>7. serverFrameNum' \in -1..MaxFrame
    BY <1>2
  <2>8. \A p \in Players : \A i \in DOMAIN inbox'[p] : inbox'[p][i].frame \in 0..frameNum'[p]
    BY <1>1 DEF TypeOK
  <2>9. /\ localClientNumber' \in Locals /\ joins' \in Nat
        /\ link' \in [Players -> {"none", "up", "closing", "adopted"}]
        /\ lastFrameResponse' \in [Players -> Nat] /\ checksum' \in [Players -> Checksums]
    BY <1>1 DEF TypeOK
  <2> QED
    BY <1>1, <2>1, <2>2, <2>3, <2>4, <2>5, <2>6, <2>7, <2>8, <2>9 DEF TypeOK
<1>8. ASSUME NEW p \in Players
      PROVE  SeatInv(p)'
  <2>1. SilentInv(p) /\ HeardInv(p) /\ OrderInv(p) /\ TruthInv(p)
    BY DEF SeatInv
  <2>2. SilentInv(p)'
    BY <2>1, <1>1, <1>4 DEF SilentInv
  <2>3. lastFrameResponse[p] \in Nat /\ frameNum[p] \in Int /\ frameNum[p] <= serverFrameNum
    BY <1>2 DEF TypeOK
  <2>4. HeardInv(p)'
    BY <2>1, <2>3, <1>1, <1>2 DEF HeardInv
  <2>5. OrderInv(p)'
    <3>1. SUFFICES ASSUME link[p] = "up", NEW f \in outstandingSyncFrames'
                   PROVE  /\ f < lastFrameResponse[p] => f \in Answered(p)'
                          /\ \A i \in 1..Len(inbox[p]) :
                                f < inbox[p][i].frame => Known(p, f, i - 1)'
                          /\ f <= frameNum[p] => Known(p, f, Len(inbox[p]))'
      BY <1>1 DEF OrderInv
    <3>2. CASE f \in outstandingSyncFrames /\ f \notin Settled
      <4>1. \A i : Known(p, f, i) => Known(p, f, i)'
        BY <3>2, <1>1, <1>4 DEF Known
      <4>2. f \in Answered(p) => f \in Answered(p)'
        BY <3>2, <1>4
      <4>3. inbox'[p] = inbox[p]
        BY <1>1
      <4> QED
        BY <3>1, <3>2, <4>1, <4>2, <4>3, <2>1 DEF OrderInv
    <3>3. CASE f \in Int /\ serverFrameNum < f
      <4>1. ~ (f < lastFrameResponse[p]) /\ ~ (f <= frameNum[p])
        BY <3>3, <2>1, <2>3, <1>2 DEF HeardInv
      <4>2. ASSUME NEW i \in 1..Len(inbox[p])
            PROVE  ~ (f < inbox[p][i].frame)
        <5>1. DOMAIN inbox[p] = 1..Len(inbox[p])
          BY DEF Shapes
        <5>2. inbox[p][i].frame \in 0..frameNum[p]
          BY <5>1 DEF TypeOK
        <5> QED
          BY <5>2, <3>3, <2>3, <1>2
      <4> QED
        BY <4>1, <4>2
    <3> QED
      BY <3>2, <3>3, <1>3
  <2>6. TruthInv(p)'
    BY <2>1, <1>1, <1>4 DEF TruthInv
  <2> QED
    BY <2>2, <2>4, <2>5, <2>6 DEF SeatInv
<1>9. MemoryBounded'
  <2>1. ASSUME NEW p \in Players, NEW f \in Answered(p)'
        PROVE  f \in outstandingSyncFrames'
    <3>1. f \in Answered(p) /\ f \in outstandingSyncFrames
      BY <1>4 DEF MemoryBounded
    <3>2. p \in Linked
      BY <3>1 DEF SeatInv, SilentInv, Linked
    <3> QED
      BY <3>1, <3>2, <1>3, <1>4
  <2>2. ASSUME NEW f \in outstandingSyncFrames'
        PROVE  f >= serverFrameNum' - SyncCheckTimeout - MaxNewFrames
    <3>1. CASE f \in outstandingSyncFrames /\ f \notin Settled
      <4>1. ~ Expired(f)
        BY <3>1 DEF Settled, Complete
      <4> QED
        BY <3>1, <4>1, <1>2 DEF Expired
    <3>2. CASE f \in Int /\ serverFrameNum < f /\ f <= serverFrameNum'
      BY <3>2, <1>2
    <3> QED
      BY <3>1, <3>2, <1>3
  <2> QED
    BY <2>1, <2>2 DEF MemoryBounded
<1>10. ReportInv'
  <2>1. CASE syncErrorFrame # 0
    BY <2>1, <1>6 DEF ReportInv
  <2>2. CASE syncErrorFrame = 0 /\ Errors = {}
    BY <2>2, <1>2, <1>6, LastMessageFacts DEF ReportInv
  <2>3. CASE syncErrorFrame = 0 /\ Errors # {}
    BY <2>3, <1>6 DEF ReportInv, Announces
  <2> QED
    BY <2>1, <2>2, <2>3
<1>11. HostInv'
  <2>1. SUFFICES ASSUME localClientNumber # NoPlayer, BoundedLag
                 PROVE  serverFrameNum' - lastFrameResponse[localClientNumber] <= SyncCheckTimeout
    BY <1>1 DEF HostInv
  <2> DEFINE behind == serverFrameNum - lastFrameResponse[localClientNumber]
  <2>2. localClientNumber \in Players
    BY <2>1, ConstantTypes DEF TypeOK
  <2>3. lastFrameResponse[localClientNumber] \in Nat
    BY <2>2 DEF TypeOK
  <2>4. behind \in Int /\ -1 <= behind /\ behind <= SyncCheckTimeout
    BY <2>1, <2>2, <2>3, <1>2 DEF HostInv, SeatInv, HeardInv
  <2>5. PICK r \in SimRates :
          n <= (r * (IF behind < GameSpeed THEN GameSpeed - behind ELSE 0)) \div GameSpeed
    BY <2>1 DEF CreateNewFrame, MaxFrames
  <2>6. behind + n <= SyncCheckTimeout
    <3> HIDE DEF behind
    <3> QED
      BY <2>1, <2>4, <2>5, LagBounded
  <2> QED
    BY <2>3, <2>6, <1>2
<1> QED
  BY <1>5, <1>7, <1>8, <1>9, <1>10, <1>11

\* Every step preserves the inductive invariant.
LEMMA NextIndInv == IndInv /\ [Next]_vars => IndInv'
<1> SUFFICES ASSUME IndInv, [Next]_vars
             PROVE  IndInv'
  OBVIOUS
<1>1. CASE UNCHANGED vars
  <2>1. UNCHANGED <<localClientNumber, serverFrameNum, outstandingSyncFrames, link,
                    syncResponse, lastFrameResponse, desynced, syncErrorFrame,
                    syncWarningFrame, desyncHasOccurred, frameNum, checksum, inbox, joins>>
    BY <1>1 DEF vars, frames, checks, clients
  <2>2. TypeOK' /\ Shapes' /\ MemoryBounded' /\ HostInv' /\ ReportInv'
    BY <2>1 DEF IndInv, TypeOK, Shapes, MemoryBounded, HostInv, ReportInv, Answered
  <2>3. \A p \in Players : SeatInv(p)'
    BY <2>1, SeatUnchanged DEF IndInv, frames
  <2> QED
    BY <2>2, <2>3 DEF IndInv
<1>2. ASSUME NEW p \in Players, SimFrame(p)
      PROVE  IndInv'
  BY <1>2, SimFramePreserves
<1>3. ASSUME NEW p \in Players, Diverge(p)
      PROVE  IndInv'
  BY <1>3, DivergePreserves
<1>4. ASSUME NEW p \in Players, ProcessPacket(p)
      PROVE  IndInv'
  BY <1>4, ProcessPacketPreserves
<1>5. ASSUME NEW p \in Players, PeekPackets(p)
      PROVE  IndInv'
  BY <1>5, PeekPacketsPreserves
<1>6. ASSUME NEW p \in Players,
             \/ \E flush \in BOOLEAN : Kill(p, flush)
             \/ CheckForExpiredConnection(p) \/ Connected(p) \/ Adopt(p)
      PROVE  IndInv'
  BY <1>6, SeatsPreserve
<1>7. CASE Unpause
  BY <1>7, UnpausePreserves
<1>8. ASSUME NEW n \in 0..MaxNewFrames, CreateNewFrame(n)
      PROVE  IndInv'
  BY <1>8, CreateNewFramePreserves
<1> QED
  BY <1>1, <1>2, <1>3, <1>4, <1>5, <1>6, <1>7, <1>8 DEF Next

-----------------------------------------------------------------------------
(* What follows for the server                                             *)

\* IndInv holds in every reachable state.
THEOREM Invariance == Spec => []IndInv
<1>1. Init => IndInv
  BY InitIndInv
<1>2. IndInv /\ [Next]_vars => IndInv'
  BY NextIndInv
<1> QED
  BY <1>1, <1>2, PTL DEF Spec

\* The state keeps its types, so that frames and answers have the ranges that
\* GameServer.h and GameParticipant.h give them, whatever clients do.
THEOREM TypeCorrect == Spec => []TypeOK
<1>1. IndInv => TypeOK
  BY DEF IndInv
<1> QED
  BY <1>1, Invariance, PTL

\* syncResponse and outstandingSyncFrames are bounded by the timeout and the frames of a
\* pass, for games of any length.
THEOREM Bounded == Spec => []MemoryBounded
<1>1. IndInv => MemoryBounded
  BY DEF IndInv
<1> QED
  BY <1>1, Invariance, PTL

\* The warning NoSyncResponse never names a player with a link, whose answers come in order,
\* however late, whoever had its seat before and whatever is processed twice. What checksums
\* are compared with is another matter (AccusedRightly).
THEOREM NeverBlamed == Spec => []InOrderNeverBlamed
<1>1. IndInv => InOrderNeverBlamed
  BY DEF IndInv, SeatInv, OrderInv, InOrderNeverBlamed
<1> QED
  BY <1>1, Invariance, PTL

\* No player is reported as desynced by a host if neither has diverged.
THEOREM RightlyAccused == Spec => []AccusedRightly
<1>1. ASSUME IndInv
      PROVE  AccusedRightly
  <2>1. SUFFICES ASSUME NEW p \in Linked, NEW f \in outstandingSyncFrames,
                        Wrong(p, f), localClientNumber # NoPlayer,
                        checksum[p] = Correct, checksum[localClientNumber] = Correct
                 PROVE  FALSE
    BY DEF AccusedRightly
  <2>2. p \in Players /\ localClientNumber \in Players
    BY <2>1, <1>1, ConstantTypes DEF Linked, IndInv, TypeOK
  <2>3. /\ \A g \in Answered(p) : syncResponse[p][g] = Correct
        /\ \A g \in Answered(localClientNumber) : syncResponse[localClientNumber][g] = Correct
    BY <2>1, <2>2, <1>1 DEF IndInv, SeatInv, TruthInv
  <2> QED
    BY <2>1, <2>3 DEF Wrong, IsCorrect
<1> QED
  BY <1>1, Invariance, PTL

\* A frame is forgotten only when the host has answered it; who answered otherwise has been
\* reported then.
LEMMA StepNotices ==
    ASSUME BoundedLag, IndInv, [Next]_vars,
           NEW f \in outstandingSyncFrames \ outstandingSyncFrames', NEW p \in Linked,
           localClientNumber # NoPlayer, checksum[localClientNumber] = Correct,
           f \in Answered(p), syncResponse[p][f] # Correct
    PROVE  desyncHasOccurred'
<1>1. PICK n \in 0..MaxNewFrames : CreateNewFrame(n)
  BY DEF Next, vars, frames, SimFrame, Diverge, ProcessPacket, PeekPackets, Kill,
         CheckForExpiredConnection, Connected, Adopt, Unpause
<1>2. f \in Settled
  BY <1>1 DEF CreateNewFrame, NewFrames
<1>3. /\ localClientNumber \in Players /\ p \in Players /\ link[localClientNumber] = "up"
      /\ serverFrameNum - lastFrameResponse[localClientNumber] <= SyncCheckTimeout
      /\ OrderInv(localClientNumber) /\ TruthInv(localClientNumber)
  BY ConstantTypes DEF IndInv, TypeOK, HostInv, SeatInv, Linked
<1>4. f \in Answered(localClientNumber)
  <2>1. CASE Expired(f)
    <3>1. /\ f \in Int /\ serverFrameNum \in Int /\ SyncCheckTimeout \in Int
          /\ lastFrameResponse[localClientNumber] \in Int
      BY <1>3, ConstantTypes DEF IndInv, TypeOK
    <3>2. f < lastFrameResponse[localClientNumber]
      BY <2>1, <3>1, <1>3 DEF Expired
    <3> QED
      BY <3>2, <1>3 DEF OrderInv
  <2>2. CASE ~ Expired(f)
    BY <2>2, <1>2, <1>3 DEF Settled, Complete, Linked
  <2> QED
    BY <2>1, <2>2
<1>5. syncResponse[localClientNumber][f] = Correct
  BY <1>3, <1>4 DEF TruthInv
<1>6. f \in Errors
  <2>1. Correct \in Checksums
    BY SyncAssumption
  <2> QED
    BY <2>1, <1>4, <1>5 DEF Errors, Wrong, IsCorrect
<1>7. desyncHasOccurred' = (desyncHasOccurred \/ Announces(syncErrorFrame, Errors))
  BY <1>1 DEF CreateNewFrame, CheckSync
<1>8. CASE syncErrorFrame = 0
  BY <1>6, <1>7, <1>8 DEF Announces
<1>9. CASE syncErrorFrame # 0
  BY <1>7, <1>9 DEF IndInv, ReportInv
<1> QED
  BY <1>8, <1>9

\* No desync is forgotten unreported, whatever the pace of the players, if the server cannot
\* run ahead of the host by more than the timeout.
THEOREM NothingMissed ==
    ASSUME BoundedLag
    PROVE  Spec => DesyncNoticed
<1>1. IndInv /\ [Next]_vars =>
        [\A f \in outstandingSyncFrames \ outstandingSyncFrames', p \in Linked :
           /\ localClientNumber # NoPlayer /\ checksum[localClientNumber] = Correct
           /\ f \in Answered(p) /\ syncResponse[p][f] # Correct
           => desyncHasOccurred']_vars
  BY StepNotices
<1> QED
  BY <1>1, Invariance, PTL DEF Spec, DesyncNoticed
=============================================================================
