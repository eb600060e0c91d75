--------------------------- MODULE GameServerSync ---------------------------
(***************************************************************************)
(* Frames and the sync check of the game server (rts/Net/GameServer.cpp,   *)
(* with what rts/Net/NetCommands.cpp makes of a frame on the client).      *)
(*                                                                         *)
(* The server broadcasts frames. A client simulates them in order and      *)
(* answers each with a checksum of its game state, every KeyframeInterval  *)
(* frames with the number of the frame first. The server collects the      *)
(* answers to a frame, compares them in each pass, and forgets the frame   *)
(* when all have answered or it is too old. Clients come and go meanwhile; *)
(* who joins gets all frames from the first one.                           *)
(*                                                                         *)
(* inbox[p] are the answers on the way to the server and in the loopback   *)
(* link of the player. Frames on the way to a client are those between its *)
(* frameNum and the server's.                                              *)
(***************************************************************************)
EXTENDS Integers, Sequences, FiniteSets

CONSTANTS
    NumPlayers,
    Locals,            \* what localClientNumber may be; NoPlayer: no local client
    Checksums,         \* what clients can compute for a frame...
    Correct,           \* ... and what a client computes that has not diverged
    SyncCheckTimeout,  \* in frames (300)
    MsgTimeout,        \* in frames (400)
    KeyframeInterval,  \* in frames (16)
    GameSpeed,         \* frames per second (30)
    SimRates,          \* frames per second the host may reach, GameSpeed or more
    MaxNewFrames,      \* most frames the elapsed time can call for in a pass
    MaxFrame,          \* bound on frames
    MaxInFlight,       \* bound on a client's messages on the way
    MaxJoins,          \* bound on clients that come back
    MaxDiverged        \* bound on clients that diverge

Players == 1..NumPlayers
NoPlayer == 0

ASSUME SyncAssumption ==
    /\ NumPlayers \in Nat /\ Locals \subseteq Players \cup {NoPlayer}
    /\ Correct \in Checksums
    /\ {SyncCheckTimeout, MsgTimeout, MaxNewFrames, MaxFrame, MaxInFlight,
       MaxJoins, MaxDiverged} \subseteq Nat
    /\ {KeyframeInterval, GameSpeed} \subseteq Nat \ {0}
    /\ SimRates \subseteq Nat /\ \A r \in SimRates : r >= GameSpeed

\* The server cannot be ahead of the host by more frames than a frame is waited for:
\* a pass creates too few (6 times the game's speed, which is 20 at most by default),
\* or the host is too slow for that. Only DesyncNoticed depends on it.
BoundedLag ==
    \/ GameSpeed - 1 + MaxNewFrames <= SyncCheckTimeout
    \/ \A r \in SimRates : r + r \div GameSpeed - 1 <= SyncCheckTimeout

VARIABLES
    localClientNumber,
    serverFrameNum,
    outstandingSyncFrames,
    link,              \* "none"; "up"; "closing"; "adopted": up, but handed to another
                       \* client while closing, so that nothing is heard from it
    syncResponse,      \* the answers to outstanding frames, for each player a function
    lastFrameResponse,
    desynced,
    syncErrorFrame,    \* the last frame an error was reported for, 0 if none
    syncWarningFrame,
    desyncHasOccurred,
    frameNum,          \* of each client
    checksum,          \* that each client computes
    inbox,
    joins

clients == <<frameNum, checksum>>
frames == <<serverFrameNum, outstandingSyncFrames>>
checks == <<desynced, syncErrorFrame, syncWarningFrame, desyncHasOccurred>>
vars == <<localClientNumber, frames, link, syncResponse, lastFrameResponse, checks,
          clients, inbox, joins>>

NoAnswers == [f \in {} |-> Correct]
Linked == {p \in Players : link[p] \in {"up", "adopted"}}
Answered(p) == DOMAIN syncResponse[p]

Init ==
    /\ localClientNumber \in Locals
    /\ serverFrameNum = -1 /\ outstandingSyncFrames = {}
    /\ link = [p \in Players |-> "up"]
    /\ syncResponse = [p \in Players |-> NoAnswers]
    /\ lastFrameResponse = [p \in Players |-> 0]
    /\ desynced = [p \in Players |-> FALSE]
    /\ syncErrorFrame = 0 /\ syncWarningFrame = 0
    /\ desyncHasOccurred = FALSE
    /\ frameNum = [p \in Players |-> -1] /\ checksum = [p \in Players |-> Correct]
    /\ inbox = [p \in Players |-> <<>>]
    /\ joins = 0
-----------------------------------------------------------------------------
(* The clients *)

Key(f) == [type |-> "keyframe", frame |-> f]
Response(f, c) == [type |-> "response", frame |-> f, checksum |-> c]

\* What a client with checksum c sends for frame f.
Answer(f, c) ==
    (IF f % KeyframeInterval = 0 THEN <<Key(f)>> ELSE <<>>) \o <<Response(f, c)>>

\* The client simulates the next frame it has and answers it.
SimFrame(p) ==
    LET f == frameNum[p] + 1 IN
    /\ link[p] = "up" /\ f <= serverFrameNum /\ Len(inbox[p]) < MaxInFlight
    /\ frameNum' = [frameNum EXCEPT ![p] = f]
    /\ inbox' = [inbox EXCEPT ![p] = @ \o Answer(f, checksum[p])]
    /\ UNCHANGED <<localClientNumber, frames, link, syncResponse, lastFrameResponse, checks,
                   checksum, joins>>

\* The game state of a client is no longer that of the others, for good.
Diverge(p) ==
    /\ link[p] = "up" /\ checksum[p] = Correct
    /\ Cardinality({q \in Players : checksum[q] # Correct}) < MaxDiverged
    /\ \E c \in Checksums \ {Correct} : checksum' = [checksum EXCEPT ![p] = c]
    /\ UNCHANGED <<localClientNumber, frames, link, syncResponse, lastFrameResponse, checks,
                   frameNum, inbox, joins>>
-----------------------------------------------------------------------------
(* ProcessPacket *)

\* A later frame of the player than the last one heard of.
Heard(p, f) ==
    lastFrameResponse' = [lastFrameResponse EXCEPT ![p] =
        IF f <= serverFrameNum /\ f > @ THEN f ELSE @]

\* The answers of p after the messages ms, one for each frame.
Stored(p, ms) ==
    LET new == {m \in ms : m.type = "response" /\ m.frame \in outstandingSyncFrames} IN
    [f \in Answered(p) \cup {m.frame : m \in new} |->
        IF \E m \in new : m.frame = f THEN (CHOOSE m \in new : m.frame = f).checksum
        ELSE syncResponse[p][f]]

\* The oldest message of a player is taken and processed.
ProcessPacket(p) ==
    /\ link[p] = "up" /\ inbox[p] # <<>>
    /\ syncResponse' = [syncResponse EXCEPT ![p] = Stored(p, {Head(inbox[p])})]
    /\ Heard(p, Head(inbox[p]).frame)
    /\ inbox' = [inbox EXCEPT ![p] = Tail(@)]
    /\ UNCHANGED <<localClientNumber, frames, link, checks, clients, joins>>

\* The player uses too much bandwidth: its messages stay where they are, but these are
\* processed all the same, in this pass and in later ones.
PeekPackets(p) ==
    /\ link[p] = "up" /\ inbox[p] # <<>>
    /\ syncResponse' = [syncResponse EXCEPT ![p] =
          Stored(p, {inbox[p][i] : i \in DOMAIN inbox[p]})]
    /\ Heard(p, inbox[p][Len(inbox[p])].frame)
    /\ UNCHANGED <<localClientNumber, frames, link, checks, clients, inbox, joins>>

\* A player ends a pause, which resets the check. (In a paused game passes create no
\* frames. That is a matter of the time that has elapsed to this module.)
Unpause ==
    /\ syncErrorFrame # 0
    /\ syncErrorFrame' = 0
    /\ UNCHANGED <<localClientNumber, frames, link, syncResponse, lastFrameResponse,
                   desynced, syncWarningFrame, desyncHasOccurred, clients, inbox,
                   joins>>
-----------------------------------------------------------------------------
(* Connections: what Kill, Connected and BindConnection do to the check. The    *)
(* module GameServerSession has the rest. The local client stays.              *)

BugKill(p, flush) ==
    /\ link[p] \in {"up", "adopted"} /\ p # localClientNumber
    /\ link' = [link EXCEPT ![p] = IF flush THEN "closing" ELSE "none"]
    /\ inbox' = [inbox EXCEPT ![p] = <<>>]
    /\ UNCHANGED <<localClientNumber, frames, syncResponse, lastFrameResponse, checks,
                   clients, joins>>

Kill(p, flush) ==
    /\ link[p] \in {"up", "adopted"} /\ p # localClientNumber
    /\ link' = [link EXCEPT ![p] = IF flush THEN "closing" ELSE "none"]
    /\ inbox' = [inbox EXCEPT ![p] = <<>>]
    /\ syncResponse' = [syncResponse EXCEPT ![p] = NoAnswers]
    /\ UNCHANGED <<localClientNumber, frames, lastFrameResponse, checks, clients, joins>>

CheckForExpiredConnection(p) ==
    /\ link[p] = "closing"
    /\ link' = [link EXCEPT ![p] = "none"]
    /\ UNCHANGED <<localClientNumber, frames, syncResponse, lastFrameResponse, checks,
                   clients, inbox, joins>>

BugConnected(p) ==
    /\ link[p] \in {"none", "up"} /\ p # localClientNumber
    /\ joins < MaxJoins
    /\ joins' = joins + 1
    /\ link' = [link EXCEPT ![p] = "up"]
    /\ syncResponse' = [syncResponse EXCEPT ![p] = NoAnswers]
    /\ inbox' = [inbox EXCEPT ![p] = <<>>]
    /\ frameNum' = [frameNum EXCEPT ![p] = -1]
    /\ checksum' = [checksum EXCEPT ![p] = Correct]
    /\ UNCHANGED <<localClientNumber, frames, lastFrameResponse, checks>>

\* A client connects, after the one before has gone or instead of it.
Connected(p) ==
    /\ link[p] \in {"none", "up"} /\ p # localClientNumber
    /\ joins < MaxJoins
    /\ joins' = joins + 1
    /\ link' = [link EXCEPT ![p] = "up"]
    /\ syncResponse' = [syncResponse EXCEPT ![p] = NoAnswers]
    /\ lastFrameResponse' = [lastFrameResponse EXCEPT ![p] = 0]
    /\ inbox' = [inbox EXCEPT ![p] = <<>>]
    /\ frameNum' = [frameNum EXCEPT ![p] = -1]
    /\ checksum' = [checksum EXCEPT ![p] = Correct]
    /\ UNCHANGED <<localClientNumber, frames, checks>>

\* It connects while the link of the one before is being closed.
Adopt(p) ==
    /\ link[p] = "closing" /\ joins < MaxJoins
    /\ joins' = joins + 1
    /\ link' = [link EXCEPT ![p] = "adopted"]
    /\ UNCHANGED <<localClientNumber, frames, syncResponse, lastFrameResponse, checks,
                   clients, inbox>>
-----------------------------------------------------------------------------
(* CheckSync and CreateNewFrame *)

\* The players whose answers to frame f count, in the order of their numbers.
Voters(f) == {p \in Linked : f \in Answered(p)}
Votes(f, c) == {p \in Voters(f) : syncResponse[p][f] = c}

\* Most answers of players agree on c; of several such checksums the one counts
\* whose count was reached first.
Elected(f, c) ==
    /\ Votes(f, c) # {}
    /\ \A d \in Checksums :
          \/ Cardinality(Votes(f, d)) < Cardinality(Votes(f, c))
          \/ /\ Cardinality(Votes(f, d)) = Cardinality(Votes(f, c))
             /\ \E q \in Votes(f, d) : \A p \in Votes(f, c) : p <= q

\* c is correctChecksum, if there is one.
IsCorrect(f, c) ==
    IF localClientNumber # NoPlayer
    THEN f \in Answered(localClientNumber) /\ syncResponse[localClientNumber][f] = c
    ELSE Elected(f, c)

BugWrong(p, f) == f \in Answered(p) /\ ~IsCorrect(f, syncResponse[p][f])

\* Player p is found to be desynced in frame f.
Wrong(p, f) ==
    f \in Answered(p) /\ \E c \in Checksums \ {syncResponse[p][f]} : IsCorrect(f, c)

Expired(f) == f < serverFrameNum - SyncCheckTimeout

\* Those who have not answered f in time although they have answered a later frame.
NoSyncResponse(f) == {p \in Linked : f \notin Answered(p) /\ Expired(f) /\ f < lastFrameResponse[p]}

BugComplete(f) == Expired(f) \/ (localClientNumber # NoPlayer /\ f \in Answered(localClientNumber))

\* All have answered, or need not any longer.
Complete(f) == \A p \in Linked : f \in Answered(p) \/ Expired(f)

\* A message about one of the frames bad is sent, if the last one was about frame last: it
\* stops others about the MsgTimeout frames after it.
Announces(last, bad) == \E f \in bad : last = 0 \/ f - last > MsgTimeout

\* The frame of the last message after that: after[n], when the frames below n are checked.
LastMessage(last, bad) ==
    LET after[n \in Nat] ==
            IF n = 0 THEN last
            ELSE LET m == after[n - 1] IN IF Announces(m, bad \cap {n - 1}) THEN n - 1 ELSE m
    IN  after[serverFrameNum + 1]

\* Whether p is desynced: later frames overrule earlier ones, if p has answered any.
Verdict(p) ==
    LET judged == {f \in outstandingSyncFrames : f \in Answered(p)}
    IN  IF p \notin Linked \/ judged = {} THEN desynced[p]
        ELSE \E f \in judged : Wrong(p, f) /\ \A g \in judged : g <= f

Errors == {f \in outstandingSyncFrames : \E p \in Linked : Wrong(p, f)}
Warnings == {f \in outstandingSyncFrames : NoSyncResponse(f) # {}}
Settled == {f \in outstandingSyncFrames : Complete(f)}

CheckSync ==
    /\ desynced' = [p \in Players |-> Verdict(p)]
    /\ syncErrorFrame' = LastMessage(syncErrorFrame, Errors)
    /\ syncWarningFrame' = LastMessage(syncWarningFrame, Warnings)
    /\ desyncHasOccurred' = (desyncHasOccurred \/ Announces(syncErrorFrame, Errors))
    /\ syncResponse' = [p \in Players |->
          [f \in Answered(p) \ (IF p \in Linked THEN Settled ELSE {}) |-> syncResponse[p][f]]]

BugMaxFrames == {MaxNewFrames}

\* The most frames a pass may create: not so many that the host lags.
MaxFrames ==
    IF localClientNumber = NoPlayer THEN {MaxNewFrames}
    ELSE LET behind == serverFrameNum - lastFrameResponse[localClientNumber]
             ahead == IF behind < GameSpeed THEN GameSpeed - behind ELSE 0
         IN  {(r * ahead) \div GameSpeed : r \in SimRates}

BugNewFrames(n) ==
    /\ serverFrameNum + n <= MaxFrame
    /\ serverFrameNum' = serverFrameNum + n
    /\ outstandingSyncFrames' = (outstandingSyncFrames \ Settled)
                                  \cup serverFrameNum..(serverFrameNum + n - 1)

\* n frames are created and await answers, and those that await none are forgotten.
NewFrames(n) ==
    /\ serverFrameNum + n <= MaxFrame
    /\ serverFrameNum' = serverFrameNum + n
    /\ outstandingSyncFrames' = (outstandingSyncFrames \ Settled)
                                  \cup (serverFrameNum + 1)..(serverFrameNum + n)

\* A pass of the server's loop. The time since the last one calls for n frames or more;
\* in a paused game n is 0.
CreateNewFrame(n) ==
    /\ CheckSync
    /\ \E m \in MaxFrames : n <= m
    /\ NewFrames(n)
    /\ UNCHANGED <<localClientNumber, link, lastFrameResponse, clients, inbox, joins>>

Next ==
    \/ \E p \in Players :
          \/ SimFrame(p) \/ Diverge(p)
          \/ ProcessPacket(p) \/ PeekPackets(p)
          \/ \E flush \in BOOLEAN : Kill(p, flush)
          \/ CheckForExpiredConnection(p)
          \/ Connected(p) \/ Adopt(p)
    \/ Unpause
    \/ \E n \in 0..MaxNewFrames : CreateNewFrame(n)

\* Clients simulate what they get, the bandwidth of a client is enough in the long run,
\* and the server's loop goes on.
Fairness ==
    /\ \A p \in Players : WF_vars(SimFrame(p)) /\ WF_vars(ProcessPacket(p))
    /\ WF_vars(CreateNewFrame(0))

Spec == Init /\ [][Next]_vars /\ Fairness
-----------------------------------------------------------------------------
(* Properties *)

\* Types and ranges of the state (GameServer.h, GameParticipant.h).
TypeOK ==
    /\ localClientNumber \in Locals
    /\ serverFrameNum \in -1..MaxFrame /\ outstandingSyncFrames \subseteq 0..serverFrameNum
    /\ link \in [Players -> {"none", "up", "closing", "adopted"}]
    /\ \A p \in Players :
          /\ Answered(p) \subseteq 0..serverFrameNum
          /\ \A f \in Answered(p) : syncResponse[p][f] \in Checksums
          /\ \A i \in DOMAIN inbox[p] : inbox[p][i].frame \in 0..frameNum[p]
    /\ lastFrameResponse \in [Players -> Nat] /\ frameNum \in [Players -> -1..serverFrameNum]
    /\ checksum \in [Players -> Checksums]
    /\ desynced \in [Players -> BOOLEAN]
    /\ {syncErrorFrame, syncWarningFrame} \subseteq 0..MaxFrame
    /\ desyncHasOccurred \in BOOLEAN
    /\ joins \in Nat

\* Memory is bounded however long the game and whatever clients come, go or fall silent:
\* only answers to outstanding frames are kept, and no frame is outstanding for long.
MemoryBounded ==
    /\ \A p \in Players : Answered(p) \subseteq outstandingSyncFrames
    /\ \A f \in outstandingSyncFrames : f >= serverFrameNum - SyncCheckTimeout - MaxNewFrames

\* The warning that a player has not answered a frame (NoSyncResponse) is never about
\* one whose answers arrive in order, also if another client had the seat before or its
\* messages are peeked and then processed again.
InOrderNeverBlamed ==
    \A p \in Players, f \in outstandingSyncFrames :
        link[p] = "up" /\ f < lastFrameResponse[p] => f \in Answered(p)

\* With a local client a player is reported only if it or the host has diverged, be it
\* slow, new in its seat, or quicker than the host.
AccusedRightly ==
    \A p \in Linked, f \in outstandingSyncFrames :
        Wrong(p, f) /\ localClientNumber # NoPlayer
        => {checksum[p], checksum[localClientNumber]} # {Correct}

\* No frame is forgotten with an answer that differs from the host's unless a desync
\* has been reported, of this frame or an earlier one (desyncHasOccurred is never reset):
\* the host answers before the frame is too old.
DesyncNoticed ==
    [][\A f \in outstandingSyncFrames \ outstandingSyncFrames', p \in Linked :
          /\ localClientNumber # NoPlayer /\ checksum[localClientNumber] = Correct
          /\ f \in Answered(p) /\ syncResponse[p][f] # Correct
          => desyncHasOccurred']_vars

\* A client that has diverged and has yet to simulate a frame that is outstanding is found
\* desynced, if it stays and the host has not diverged, or without a host if others are
\* there to outvote it.
DivergenceFound ==
    \A p \in Players :
        /\ link[p] = "up" /\ checksum[p] # Correct
        /\ frameNum[p] < serverFrameNum /\ serverFrameNum \in outstandingSyncFrames
        ~> \/ desynced[p] \/ link[p] # "up" \/ checksum[p] = Correct
           \/ IF localClientNumber # NoPlayer THEN checksum[localClientNumber] # Correct
              ELSE Cardinality({q \in Players : link[q] = "up" /\ checksum[q] = Correct}) < 2
=============================================================================
