# A formal model of the Recoil engine's network core

Recoil is a lockstep RTS engine. Every client simulates the whole game; what the
clients must agree on is the stream of messages that the game server broadcasts.
This project models the parts of the engine where that agreement is made: the
reliable transport, the messages and sessions above it, the server's frame and sync
bookkeeping, who controls the teams, and the thread pool that the simulation runs on. TLC
model-checks each module on small instances, and TLAPS proves the central theorems
for all values of the constants.

## 1. Inventory

| Part (under `rts/`) | State | Operations | Talks to | What is hard | What must hold |
|---|---|---|---|---|---|
| UDP transport, `System/Net/UDPConnection` | per endpoint: `outgoingData`, `newChunks`, `unackedChunks`, `resendRequested`, `waitingPackets`, `lastInOrder`, `fragmentBuffer`, `msgQueue`, timers, loss factor, `muted`, `closed` | `SendData`, `Flush`, `Update`, `ProcessRawPacket`, `Close`, `SetLossFactor`, `ReconnectTo` | its peer over UDP; owner above | loss, duplication, reordering; stale acknowledgements and NAKs; timers; reconnection | FIFO, exactly once; nothing forgotten; everything delivered in the end |
| UDP listener, `System/Net/UDPListener` | `connMap`, `waiting`, `acceptNewConnections` | `Update`, accept, reject | server socket; game server | datagrams of unknown, expired and rejected addresses | a client that asks is admitted once |
| Local and loopback connections | two shared queues, `numInstances`, `numPings` | `SendData`, `GetData`, `Peek`, `DeleteBufferPacketAt`, construction | client and server threads | shared static state of two threads | FIFO; the ping counter never misses a ping in the queue |
| Client protocol, `Net/Protocol/NetProtocol` | the connection, the heartbeat thread | `InitClient`, `AttemptReconnect`, `Send`, `GetData`, `Close` | transport; game loop | heartbeat thread while loading | first message is the attempt, last one is Quit |
| Game server: sessions, `Net/GameServer.cpp`, `Net/GameParticipant.cpp` | `players` (state, link, AI links), `packetCache`, `canReconnect`, `gameHasStarted`, `readyTime` | `HandleConnectionAttempts`, `BindConnection`, `Kill`, `CheckForExpiredConnection`, `CheckForGameStart`, `StartGame` | listener; clients | timeouts against reconnections; joining while messages are broadcast | a player sees every broadcast once and in order |
| Game server: frames and sync | `serverFrameNum`, `outstandingSyncFrames`, `syncResponse`, `desynced` | `CreateNewFrame`, `CheckSync`, SYNCRESPONSE, KEYFRAME | clients | answers in any order, late, never | no false desync, no frame outstanding for ever |
| Game server: teams and AIs | `teams` (leader, active), `skirmishAIs`, `aiClientLinks` | team messages, `ResignPlayer`, AI creation and death | clients | requests of several players crossing each other; ids used again; two copies of the data | clients agree; no AI is left half-way or without a link |
| Thread pool, `System/Threading/ThreadPool` | task queues per worker, task groups, ring of recycled groups | `for_mt`, `parallel`, `WaitForFinished`, `DoTask` | all of the simulation | lock-free interleavings; recycling | every index once; the caller returns after the last |
| Client consumption of frames, `Net/NetCommands.cpp` | queue, `msgProcTimeLeft` | `ClientReadNet`, `UpdateNumQueuedSimFrames` | client protocol | deletion while peeking | no message skipped |
| Object dependencies and ids, `System/Object`, `Sim/Misc/SimObjectIDPool` | listener lists; free, temporary and pool maps | add, delete, destroy; extract, reserve, free | simulation | destruction during iteration; recycling when empty | symmetric lists; no id twice |
| Simulation, paths, Lua, AI interfaces, rendering, file system, sound, input, menus | — | — | — | numeric, graphical or input/output | not modelled; reasons in `PROJECT.json` |

`PROJECT.json` lists every component with its status and every hazard with its line.

## 2. Plan

Done, in this order, the most important behaviour first:

1. `UdpConnection` with the abstract `ReliableStream` and the proofs in
   `UdpConnectionProofs`.
2. `ThreadPool`: `for_mt` with `WaitForFinished` and recycling of groups, with the
   abstract `ParallelFor`.
3. `GameServerSession`: several clients against `BindConnection`, `Kill` and the
   packet cache, with the abstract `JoinedLog`.
4. `GameServerSync`: frames, sync responses, `CheckSync`, a host's lag.
5. `GameServerTeams`: who controls the teams, on the server and on every client.
6. `MessageStream`: cutting and joining messages, and how the client reads them, over
   the stream of chunks of 1 and again implementing `ReliableStream`.

Proved are all invariants that the passing runs check, some under a hypothesis that section 5 names, and
the four refinements: of `ReliableStream` for chunks and
for messages, of `JoinedLog` and of `ParallelFor`. Left as modules:
`parallel` and `SetThreadCount` of the thread pool, the two endpoints of a local
connection over a reload, `System/Object.cpp` and `SimObjectIDPool`.

## 3. Modules

| Module | What it is |
|---|---|
| `UdpConnection` | both endpoints of a UDP connection, the network between them, the listener's treatment of this client |
| `ReliableStream` | the abstract promise of `CConnection`: a FIFO stream in each direction |
| `MCUdpConnection` | values of `MaxSend` for TLC |
| `UdpConnectionProofs` | the inductive invariants and the theorems |
| `ThreadPool` | `for_mt` on the main thread and the workers: the groups, their rings, the queues, the stack of each thread |
| `ParallelFor` | the abstract promise of `for_mt`: every iteration once, between call and return |
| `MCThreadPool` | call sites and loops for TLC |
| `ThreadPoolFrames` | what a step does to the threads' stacks, and the types, for every behaviour |
| `ThreadPoolProofs` | the inductive invariant, the theorems and the refinement |
| `GameServerSession` | the seats of the game, the links of the clients, the broadcasts and their cache, on the server |
| `JoinedLog` | the abstract promise to whoever joins: all read one log from its beginning |
| `MCGameServerSession` | the start script for TLC |
| `GameServerSessionProofs` | the inductive invariant, the theorems and the refinement |
| `GameServerSync` | the clients' answers to frames, the server's comparison of them, the creation of frames |
| `MCGameServerSync` | checksums and speeds for TLC |
| `GameServerSyncProofs` | the inductive invariant and the theorems |
| `InductionFacts` | induction and recursion over the natural numbers, in a form the provers can use |
| `GameServerTeams` | players, teams and skirmish AIs on the server and on every client |
| `MCGameServerTeams` | start scripts for TLC |
| `GameServerTeamsProofs` | the inductive invariant and the theorems |
| `MessageStream` | messages as bytes: `Flush` and `ProcessRawPacket` above the chunks, a local connection, `ClientReadNet` |
| `MCMessageStream` | kinds of messages for TLC |
| `MessageStreamProofs` | the loops' invariants, the inductive invariants, the theorems and the refinement |

How they stand on each other: `UdpConnection` implements `ReliableStream` for chunks.
`MessageStream` takes the chunks as such a stream and implements `ReliableStream` for
messages. What `GameServerSession`, `GameServerSync` and `GameServerTeams` send on a
link therefore arrives in order. `GameServerSync` and `GameServerTeams` take what happens
to connections from `GameServerSession`, as far as it concerns them. `ThreadPool` is independent of the
others.

### UdpConnection

The variables carry the names of the members of `UDPConnection`, indexed by
endpoint. `sent` and `delivered` are history variables: what was given to `SendData`
and what was put into `msgQueue`. `net` is the set of datagrams in flight.

| Action | Code |
|---|---|
| `SendData`, `Unmute`, `SetLossFactor`, `Close` | the methods of the same name |
| `Receive` | one iteration of the receive loops of `UDPConnection::Update` and `UDPListener::Update`, with `ProcessRawPacket`: discarding superfluous reconnections, `AckChunks`, NAKs and `RequestResend`, storing chunks, releasing those in order |
| `Update` | the `Flush` that ends `Update`, or a forced one: `CreateChunk`, then `SendIfNecessary` |
| `AttemptReconnect` | `CNetProtocol::AttemptReconnect`: a second, short-lived connection on the client's socket |

What is abstracted, and why it is sound:

* *Data.* A chunk carries one datum. A chunk of several messages, or a part of one,
  behaves the same at this level.
* *Time.* Each timer may or may not have elapsed at each flush; the bandwidth
  limit may or may not cut a flush short, before the first datagram too. A forced
  flush is one that turns all of `outgoingData` into chunks and sends.
* *The network.* A datagram that is lost, is corrupt (the checksum discards it),
  or is refused by the socket is not put into `net`. A delivered one may stay in
  `net` (duplication), and `net` is a set (reordering).
* *resendRequested* is a set of numbers. In the code it is a sorted vector whose
  duplicates `UpdateResendRequests` removes before the flush that made them ends.
* *The order of chunks inside a datagram* is left out: the receiver sorts. Only
  the listener looks at it (`OpensConnection`): a first datagram in which
  chunk 0 comes second would be dropped, which is the same as lost.
* *Where the middle of a lossy resend starts* (`lastMidChunk`) is any place.
* *The address.* The server's answers to an old address of a reconnecting client
  are lost datagrams. Updates of `connMap` are left out.
* *The client's owner* submits one connection attempt and, until it is answered,
  nothing but Quit (`NetProtocol.cpp` 37–63): `MayAsk`. This is what makes the
  discarding of "superfluous reconnection attempts" harmless.

### ThreadPool

`group` holds the task groups (`ctr`, `remaining`, the call whose function they hold,
the flags `inTaskQueue` and "in use"), `queue` the task queues, `stack` the call stack of each thread. Each
atomic operation on a group is a step.

| Action | Code |
|---|---|
| `MainCalls`, `ForMt` | `for_mt` up to `GetTaskGroup`, by the main thread or by a body; `ForMt` also takes the group and resets it |
| `StoreRemaining`, `StoreCounter`, `StoreFunc` | `ForTaskGroup::Enqueue`, store by store |
| `PushTaskGroup` | `ThreadPool::PushTaskGroup` to one worker's queue |
| `TakeIteration`, `LeaveLoop`, `RunBody`, `NestedDone`, `CountIteration` | `ExecuteLoop` and `ExecuteStep` |
| `SerialStep` | the loop of a `for_mt` that is too short to be shared |
| `Wait`, `DoTask`, `DoneTasks`, `Return` | `WaitForFinished`, `DoTask` and the worker loop |

Abstractions: memory is sequentially consistent (some of the code's loads are
relaxed; the plain stores of `Enqueue` are ordered by the queues as long as no group
is recycled). A queue is a bag, because `moodycamel` queues promise no order
between producers. Sleeping and waking are left out: a sleep is bounded, so a worker
gets round to its queue anyway. A waiting thread looks at the group and takes a task in one step (`Wait`); in the
code the group may finish in between (`ThreadPool.cpp` 276-287), and the thread then takes one task more before it
returns. The bounds and the step of a loop are constants of its call site: of a half-initialised group only the
function can be stale, while in the code the bounds of a call site may change as well. `wantedThread` is the worker that
`PushTaskGroup` pushes to; `execLoopDone` is left out (only the deletion of groups without
a pool looks at it). Not modelled: `parallel`, asynchronous tasks, `SetThreadCount`,
the exit flags, and a pool without workers, which runs every loop in the caller.

`Spec` is the code. `FreeSpec` is the code under the hypothesis that a group that `GetTaskGroup` hands
out is nobody's (`GivesFreeGroups`): no thread executes it and no queue holds it. This is what the
assertions there (`ThreadPool.h` 697–700) say, and what the code ensures only until a ring comes round.

### GameServerSession

`players` are the participants with their `myState`, `clientLink` and loopback link;
`client` says whether a program runs at the other end. A link is recorded with
everything that was sent on it: its header (game data, player number, team), its log
(the broadcasts) and the rest, from the Quit on. `history` is everything broadcast.

| Action | Code |
|---|---|
| `BindKnown` | `HandleConnectionAttempts`, `BindConnection`: a client of a seat that has no link |
| `BindReplacing` | the same while the seat has a link that has been silent: it is replaced |
| `BindLingering` | the same in the second after a Quit or a kick |
| `BindUnknown`, `Reconnect` | `AddAdditionalUser`, by a new client or by a reconnection attempt under a name the server does not know |
| `Reject` | every refusal (password, version, not authorised, name in use) |
| `PlayerName`, `StartPos`, `Quit` | the cases of `ProcessPacket` |
| `KickPlayer`, `Timeout` | `KickPlayer`, `ServerReadNet` on a link that has timed out |
| `CheckForExpiredConnection` | the method of the same name |
| `CheckForGameStart`, `StartGame`, `NoClientsExit`, `Message` | `Update` and what it calls |
| `ClientLost` | the client's program or its network ends without a word |

Abstractions: a client's message is handled some time after it was sent, so the
client's action *is* the handling. A user runs one client at a time, and a
client ends when its link is closed. The network timeout is positive. Whether a link
has been silent long enough, and whether a second has passed, is a choice. A client sends its name once,
on a connected seat (`LoadScreen.cpp`); the server would take it in any state and with any name
(`GameServer.cpp` 1116-1136). The host's command `/adduser` (2496-2539), the second way to
`AddAdditionalUser`, is left out. An
accepted reconnection of a seat that is known moves its link to another address,
which changes nothing here. Start positions are chosen in the game. The passes of
`UpdateLoop` are relaxed: the server may find that nobody is there at any time.
System messages, private messages, player information, AI links, bandwidth limits
and demos are left out.

### GameServerSync

`frameNum` and `checksum` are the clients': the last frame each has simulated, and what
it computes. `inbox` holds its answers on the way, in the socket and in the loopback link;
the frames on the way to it are those between its `frameNum` and `serverFrameNum`.
The other variables are those of the server.

| Action | Code |
|---|---|
| `SimFrame` | the client's NEWFRAME and KEYFRAME: `SimFrame`, SYNCRESPONSE, every 16 frames KEYFRAME |
| `Diverge` | the client's game state is different from now on |
| `ProcessPacket` | SYNCRESPONSE and KEYFRAME on the server |
| `PeekPackets` | the same for the messages of a player above the bandwidth limit, which stay in the queue |
| `Unpause` | the end of a pause |
| `Kill`, `CheckForExpiredConnection`, `Connected` | the methods of `GameParticipant` |
| `Adopt` | `BindConnection` handing over a link that is being closed |
| `CreateNewFrame` | a pass: `CheckSync`, then `CreateNewFrame` |

Abstractions: a checksum is a value that a client computes for every frame from the moment it
diverges. The time since the last pass may call for any number of frames up to
`MaxNewFrames`; the host's limit on it (`MaxFrames`) is that of the code. All messages a
peek looks at are sync responses and keyframes. A client that returns begins
at frame 0, and has the frames at once. Messages to players are counted by what throttles them
(`syncErrorFrame`, `syncWarningFrame`). Not modelled: demos, single steps, speed control.

### GameServerTeams

`seen[p]` is what the client of player `p` knows (`playerHandler`, `teamHandler`,
`skirmishAIHandler`) and which AIs run there. `up` and `down` are the messages on the
way; `down` also carries the deaths of teams, since these happen in the simulation, at
the same place between the messages for all.

| Action | Code |
|---|---|
| `Spectate`, `GiveOwnTeam`, `AIKill`, `AIReload`, `AIKillShare`, `AIControl` | the commands of a player, with the conditions the client checks |
| `ProcessGiveAway`, `ProcessResign`, `ProcessTeamDied`, `ProcessAICreated`, `ProcessAIStateChanged` | the cases of `ProcessPacket`, with `ResignPlayer` |
| `TeamDies` | `CTeam::Died` |
| `ClientReadNet` | the cases of `ClientReadNet`, with `AddSkirmishAI`, `RemoveSkirmishAI`, `CTeam::Died` and what `EngineOutHandler` sends when an AI is created or destroyed |

Abstractions: `INITIALIZING` is `ALIVE`, since nothing distinguishes them. Units and
resources are left out. A client that would dereference null (`ReadsNull`) stops there.
Which id an empty `giverTeamPlayerAIs` yields (`FirstAI`) is any, and whether the setting
`aiControlFlags` refuses an AI (`GameServer.cpp` 1644) is a choice. A share may name the team of the AI itself, as the
command allows. Not modelled: joining another team
(with cheats or alone only), alliances, Lua AIs, players who leave without
resigning, and the dedicated build, which lets any client report deaths.

### MessageStream

A byte is its message and its place in it, so that a wrong cut is visible. `Types` gives for
each kind of message the number of bytes it takes to know the length, the length it
claims, and how many bytes it has; this covers messages of fixed length, of one and
of two bytes of length, too short ones and those that claim less than their own head.

| Action | Code |
|---|---|
| `SendData` | `UDPConnection::SendData`, `CLocalConnection::SendData` |
| `Flush` | the loop of `UDPConnection::Flush`, at any place of the bandwidth limit, or forced |
| `ProcessRawPacket` | what `ProcessRawPacket` does with the next chunk in order |
| `ClientReadNet` | `UpdateNumQueuedSimFrames` and the scan for pings and progress, if it is due |
| `GetData` | `GetData` of either connection and the loop of `ClientReadNet` |
| `ClientReadNetEnds` | the time is over or the queue is empty |

Abstractions: a byte from the middle of a message is never the identity of one (in the code it may be,
which matters only once the receiver has lost its place: `FramesFound` says it does not); a chunk
arrives once and in order (`UdpConnection`). The client
receives between two calls of `ClientReadNet` (`Game.cpp` 1169–1178), while a local server
sends at any time. `msgProcTimeLeft` is a choice. `muted` is in `UdpConnection`.
Both ends of a local connection exist all the time; in the code a ping sent to an end that does not is not counted,
and the queue of an end is cleared when it is made (`LocalConnection.cpp` 25, 65-68).
The loops of the code (`Filled`, `Parsed`, `Scanned`) are functions of the number of turns made: `FlushTurn`,
`ParseTurn` and `ScanTurn` are one turn each, and change nothing once the loop has ended.

## 4. Runs

| Run | Instance | Shows |
|---|---|---|
| `udp_stream` | two data each way, two kinds of datum, one of them Quit, reconnections, two datagrams in flight | the FIFO stream, as an invariant and as a refinement of `ReliableStream`; what is discarded is no loss |
| `udp_safety` | one datum of the client, three of the server, loss factors 0 and 1, gaps cut at offset 0, the server may close | types, no chunk forgotten, resend requests only for unacknowledged chunks, NAKs name sent chunks |
| `udp_lossy` | one datum of the client, three of the server, loss factors 0 and 2 chosen at run time, one datagram in flight | connecting, delivery and draining by timeouts and NAKs, also when two of up to three requested chunks are sent again per flush, from the front and the back |
| `udp_nak_assert` | four data of the server | the assertions on NAK positions fail (a finding) |
| `pool_for` | the main thread and two workers; a loop shorter than its step, then a loop of two iterations, each with a loop of two iterations in it; rings that are long enough | every iteration once, the caller returns after the last, who still has the group finds nothing in it, nobody waits for ever; `ParallelFor` is implemented |
| `pool_recycled` | one worker, the same site twice, a ring of one group | a group that is handed out again can make an iteration run twice (a finding) |
| `session` | a spectating host, a player, an unknown spectator; two accepted connections; all four combinations of the settings | whoever takes part has the whole log, the log tells who is in, lost clients are removed; `JoinedLog` is implemented |
| `session_quick_return` | the same with three connections | a client that returns too quickly misses the log (a finding) |
| `sync` | two players, player 1 the host's or no local client; three frames, one client diverges, one connects anew; two messages of each on the way | memory is bounded, nobody who answers in order is warned of as not responding, with a local client nobody is reported if neither it nor the host has diverged, a desync is noticed before the frame is forgotten, and found in the end |
| `teams` | two players in team 1, two AIs in team 2, one on each player's machine; two requests, one team dies | state changes find their AI, clients agree, no AI is left half-way or without a link |
| `teams_created` | the same without AIs, three requests | an AI's creation finds nothing stored (a finding) |
| `messages` | three messages of six kinds, chunks of four bytes | frames are found, pings overtake and are counted, the rest is a FIFO stream and is taken |

Bounds of the transport. Three chunks in one direction are the least with which a gap can be
followed by two chunks, a NAK list can have a gap of its own, and an old datagram can
carry NAKs that are answered in the meantime; two datagrams in flight are the least
that can overtake each other. The code's limits are scaled with them: `MaxNaks`
127 becomes 1 or 2, `MaxNakOffset` 255 becomes 0 or 1, the switch from a NAK list to a
count at a gap of 8 is at 1 to 3, and 20 resends per unit of loss factor become 1. In `udp_safety` a
gap is cut at the offset 0, and the number of entries (2) is not used up; in `udp_lossy` a list ends
after one entry. What the cuts may break (`TypeOK`, `NaksNameSentChunks`) is proved for
all values of both. With loss factor 2, a flush sends two requested chunks again, one from the front
and one from the back; the share of the middle begins with the third, and no run reaches it.
A flush emits one datagram; with several, the only
difference is that a NAK list is repeated or not. Only the server closes: it still
receives, because the listener reads its socket. A client that has closed is, apart from its
flag, one whose datagrams are lost and that is silent. Deadlock is not checked: when
everything is delivered and the bounds are used up, both sides may be quiet.

Bounds of the pool. Two workers are the least that can compete for an
iteration while the caller waits; two iterations with a loop in each are the least
with which a thread that waits runs an iteration of the loop it is nested in, or of a
sibling's. The bounds 3 with step 2, and 1 with step 2, have a last stride that is cut off. In
`pool_recycled` the ring of 256 groups is scaled to one, so that the second loop
already reuses the group of the first.

Bounds of the sessions. Two connections are the least with which a link is replaced,
a seat is taken again, or somebody comes late; nobody connects any more
after five broadcasts (`MaxHistory`), which allows a join, a name, a
departure and the start of the game before the second connection. What can be repeated
without end (chat, start positions, the announcements of a lost client whose link is
being closed) ends after two broadcasts (`MaxChatter`). The actions without a bound
come to an end by themselves. A lingering link is handed over once.

Bounds of the sync check. With three frames the first is too old when the last is made
(`SyncCheckTimeout` 1 for 300), and an error in the second keeps the next message back
(`MsgTimeout` 1 for 400). A host that simulates one frame per pass when the limit allows one frame
(`GameSpeed` 1 for 30) is what makes the limit effective. `DesyncNoticed` needs the
timeout to be at least what the limit lets the server run ahead (`BoundedLag`, which TLC
checks of the instance): in the code the timeout is 300 frames, and a pass creates at most six
times the speed, or what a host's measured rate of frames allows. One client that diverges and one that
returns are enough for a seat to be answered for by two clients; without a
local client, when both may leave, it is checked that memory is bounded and that nobody is warned of
wrongly, but two players cannot outvote a third, and `AccusedRightly` and `DesyncNoticed` say nothing.

Bounds of the teams. Two players and two teams are the least with a team of several
humans and one of AIs only. Two requests and the death of a team cross each other, and every
request, answer and confirmation may overtake those of the other player. All invariants
of the run also held with three requests and one AI in the start script (1.5 million states), and they are
proved for any number. `teams_created` needs three: one to leave a team without leader, two to
create.

Bounds of the messages. A chunk of four bytes holds several short messages, and is too small for a
long one of seven, which is cut into two or three parts, at each of the places where
its length is not known yet. The bandwidth limit may be reached after each byte of the
first chunk.

Fairness of the transport. `Update` is called in a loop by the heartbeat thread or the
game loop on the client and by `CGameServer::UpdateLoop` on the server, so timers
elapse over and over. Strong fairness of a flush that the network keeps and the
bandwidth limit does not cut means: the network does not lose *every* datagram. For
every chunk it is asked separately, because a network could always drop just the
datagrams in which that chunk is repeated. Delivery of a datagram in flight is weakly
fair. Nothing is assumed of the owners except that they unmute the connection.

Properties: `EventuallyDelivered` and `EventuallyAcknowledged` require both sides to have
submitted something. The server always has (`BindConnection` answers with game data or
Quit), and without it the client's acknowledgements could not be told from
"superfluous reconnection attempts".

Fairness of the pool: weak fairness of each thread, since the operating
system runs every thread that is ready. The main thread, if it begins a loop, finishes it without
the workers' help unless a worker has taken an iteration; then it depends on that worker.

Fairness of the sessions: weak fairness of the network timeout for a client that is
lost (`TimeoutLost`), since its link stays silent, and of `CheckForExpiredConnection`, which
`UpdateLoop` calls in every pass. Clients need not do anything. `LostClientsRemoved`
says that in the end nobody who is gone has a seat; clients come and go only finitely often
under the bounds, so this says of each of them that it is removed.

Fairness of the sync check: weak fairness of every client's next frame and of the server's
taking the next message and making a pass. Frames need not be created: `DivergenceFound` says that a client
that still has an outstanding frame before it is found out. `PeekPackets` alone is
not enough, hence the assumption that a client is below its limit again and again.

Fairness of the messages: the average of what was sent sinks with time, so a flush with all the
bandwidth the model knows comes as long as there is something to send. A chunk on the way is
received (that is `EventuallyDelivered` of the transport), `ClientReadNet` is called and
returns over and over, and has time for a message again and again. Three of these are written without
`WF` and `SF`, by what enables the action, since TLC would run the loops to find that out. `outgoingData`
of a flush that was cut short keeps whole messages, which `FramesFound` confirms.

### Findings

*Positions of NAKs.* `ProcessRawPacket` looks for the chunk a NAK names at position `i + unAckDiff` of
`unackedChunks`, with `unAckDiff` the number of the first unacknowledged chunk minus
the first one the peer lacks. The right position is `i - unAckDiff`. They agree if
`unAckDiff = 0`, which is so unless the datagram is older than an acknowledgement
already processed. In that case the assertions at `UDPConnection.cpp` 564 and 584 fail in a
debug build, and in a release build the wrong chunks are requested. `udp_nak_assert`
exhibits it. `Delivery` and `NoStaleResend` are proved with the error in place.

*Recycled task groups.* When the caller of `for_mt` finds no iteration left it clears
`inTaskQueue`, although the workers may have the group in their queues. The assertion
in `GetTaskGroup` that a group is out of the queues when it is handed out again therefore
protects nothing. A worker with a stale entry may enter the group between `Enqueue`'s
store to `ctr` and its store to `func`, and execute an iteration of a loop that has returned
(`pool_recycled`). It takes 256 loops of one call site during which a worker does
not empty its queue. While no group is handed out twice, `pool_for` shows that stale
entries are harmless. The theorems show that nothing else is missing: if a group were
handed out again only when it has left the queues and nobody executes it, rings could come round without end.

*Quick returns.* A client that connects in the second in which the server still holds
the link of its predecessor is taken for a reconnection (`GameServer.cpp` 3009–3022): it is
given the old link, gets neither the game data nor the broadcasts it missed
(3045), and is not heard (`session_quick_return`). `StreamComplete` and
`IntroducedFirst` exclude such a link, and say so.

*Two creations.* The client stores what it needs to create an AI under the number of the
team, and looks it up when the server's answer comes. Another player's AI for that
team clears it (`SkirmishAIHandler.cpp` 190). The server accepts a second request if
the team has lost its leader in between, because the simulation has let it die; the answer to it
then dereferences a null pointer (`NetCommands.cpp` 1288, `teams_created`).

### Observed while modelling

These are in the models, reached by their runs, and not the subject of a property.

* A spectator who is not in the start script is stored as `~name` but reconnects as
  `name`, so the server adds another user for the attempt (`GameServer.cpp` 2960; the
  comment at 2857 says that reconnections are not handled there), on a link that stays muted.
* Without a local client the "checksum that most players agree on" (`GameServer.cpp`
  624) is taken among the answers that have come so far, because the test of
  `completeResponseSet` is commented out (718). Of two players that differ and answer first, the one with
  the lower number sets the baseline, and the other is reported although
  most may agree with it; the correct message is then held back for
  `SYNCCHECK_MSG_TIMEOUT` frames.
* A comment says that with 30 frames behind the host one frame may be created
  (`GameServer.cpp` 2641); the code computes 0, and `MaxFrames` follows the code.
* A leader who gives away his own team becomes a spectator and remains its leader on the server if the
  team has another controller (`GameServer.cpp` 1518-1541). If the other human then resigns,
  `ResignPlayer` finds him leader of nothing: the team stays active, led by a spectator. `Spec` reaches
  this with two requests. No property is about the server's `leader` and `active` themselves; what they
  decide, the requests the server accepts, is in the properties only by its effect on AIs.
* When somebody who is not the host reports an AI dead, the server erases the link of that number from the sender's
  table (`GameServer.cpp` 1739) and leaves the host's. `LiveAIsHaveLinks` shows that no AI lacks a
  link by this; the link that is left over is in no property.
* A player who leads a team of AIs none of which is his reads element 0 of an empty
  vector when he gives it away (`GameServer.cpp` 1531). It takes two AIs of different hosts in one
  team, from the start script, and `/aikill` with a receiver twice. The ids in use and the free ones
  no longer partition the ids then.
* Giving away a team frees the id of its AI on the server, while the clients keep the AI:
  "the AI will be destroyed automatically, after the team has died" (`UnsyncedGameCommands.cpp` 884),
  but the server no longer knows the AI when that is reported, and does not pass it
  on. A later AI with the same id is not added on the clients: they keep the entry of the old
  one. If the host of the old one, who may kill it by its entry, leads the team of the new one for a
  moment, the new one is `DIEING` on the server for ever, because its host does not find it to be its own.
  This takes five requests (share, create, resign, kill, resign), and `AliveRuns` excludes it.
* A team that nobody controls is without a leader on the server as soon as the simulation lets it die;
  clients keep the leader they had. No client depends on the server's view, so
  `CopiesAgree` compares clients with each other.
* `CLocalConnection::DeleteBufferPacketAt` counts the packet in front instead of the one it
  deletes (`LocalConnection.cpp` 107). `PingsCounted` shows that the count errs on
  one side only: a scan may be made for nothing, again and again.
* Progress reports are not counted like pings, so a remote client whose scan is not due
  discards one that is in front (`NetCommands.cpp` 1577–1582), although the comment there says that only
  the local host gets there.
* Lengths are cast to the 8 or 16 bits they travel in. `SendAICommand`, `SendLuaMsg` and
  `SendLogMsg` throw if a message is too long and `SendSystemMessage` cuts it, but `SendPlayerName`
  (`BaseNetProtocol.cpp` 70), `SendGameOver`, `SendMapDrawPoint`, `SendAICreated` and, with 16 bits, `SendQuit`,
  `SendSelect` and `SendCommand` do not look; the comment at 36 calls the calculation safe. A longer message states less
  than it has, and the receiver reads its tail as other messages. `LengthsTold` excludes this.
* `rejectedConnections.insert` does not overwrite (`GameServer.cpp` 1925), so the count of rejections of an
  address stays 0 and the silent drop after five is never reached. A connection is refused either way.
* `CLocalConnection::GetPacketQueueSize` returns whether the queue is empty
  (`LocalConnection.cpp` 130).

## 5. Proofs

The theorems hold for all values of the constants that satisfy the assumptions of the
modules. Each proved component has one inductive invariant, `IndInv` (two, one above the other, for the
messages), from which the
properties follow; TLC checked the parts of it on the runs' instances before they were proved.
The proof that it is inductive has one lemma per action.

### The transport (`UdpConnectionProofs`)

Any data, any number of chunks, any bounds on datagrams, any limits:

* `TypeCorrect`, `Delivery`, `Retention`, `NoStaleResend`: `TypeOK`, `InOrderExactlyOnce`,
  `NothingForgotten`, `ResendOnlyUnacked` are invariants of `Spec`;
* `Refinement`: `Spec => ImplementsStream`;
* `NakSoundness`: `NaksNameSentChunks`; `HarmlessDiscard`: `DiscardsLoseOnlyQuit`.

`IndInv` says that four positions
determine the state of one direction: the data delivered, the first
unacknowledged chunk (`FirstUnacked`), the first unsent one (`SentOnce`) and the
next number. `QueueInv` says that `unackedChunks` and `newChunks` hold exactly the
chunks between them, each with the datum submitted under its number; `OutgoingInv`
that the rest is in `outgoingData`; `AckInv` that nothing is acknowledged before it is
processed; `PeerInv` that the peer's waiting chunks are chunks that were sent and
its delivered data a prefix; `NetInv` that a datagram acknowledges no more
than its source has processed and carries only sent chunks, or the chunk of a
reconnection attempt, whose number the server has had (`Reattempt`); `AnswerInv` that
the server says nothing before it has heard the client. `HandleAcksEffect` and
`HandleChunksEffect` are about the halves of `ProcessRawPacket`.

`NakSoundness` needs another one: a NAK names a chunk below one that has come
(`NakReach`), which was therefore sent, and sent chunks stay sent. `HarmlessDiscard` rests on
`DiscardInv`: until a client is answered it has asked once, has nothing but Quit to
say besides, and the server is muted; so a datagram that looks like a superfluous attempt either is
one, or carries that Quit.

### The sessions (`GameServerSessionProofs`)

Any start script, names, settings and number of connections:

* `TypeCorrect` (`TypeOK`), `NothingMissed` (`StreamComplete`), `HeardWhileTold`
  (`LoopbackIffConnected`), `HistoryTrue` (`HistoryTellsWhoIsIn`), `IntroducedAlways`
  (`IntroducedFirst`);
* `Refinement`: `Spec => ImplementsJoinedLog`.

The invariant relates what is in four places: the seats (`SeatInv`), the links
(`LinkInv`: what a link carries is the introduction and then the log from the
beginning, `StreamInv` and `HeaderInv`), the packet cache (`CacheInv`: it holds the whole log,
so that whoever comes late can be given it) and the log itself (`HistoryInv`). A link that
was handed to a client that returned too quickly is excluded, as in the properties. For the
refinement every step is shown to append to the log and to all open links, to open a
link with the log, to close links, or to stutter.

### The sync check (`GameServerSyncProofs`)

Any number of players, frames and messages, any checksums:

* `TypeCorrect` (`TypeOK`), `Bounded` (`MemoryBounded`), `NeverBlamed`
  (`InOrderNeverBlamed`), `RightlyAccused` (`AccusedRightly`);
* `NothingMissed`: `DesyncNoticed`, if `BoundedLag`.

`SeatInv` says what the server has of a seat: nothing if no client is on it (`SilentInv`), no answer
to a frame that does not exist (`HeardInv`), an answer to every outstanding frame before the last
answered one (`OrderInv`, of the messages on the way as well), and, of a client that has not diverged,
correct answers only (`TruthInv`). `HostInv` bounds how far the server is ahead of the local client by
the timeout, if `BoundedLag`: either what one pass creates beyond a second's frames, or what the host's rate
allows, is at most the timeout. It is a hypothesis of `NothingMissed` alone, and the code justifies it by
its numbers: the timeout is 300 frames, a second has 30, and a pass creates at most 6 times
the speed, which is 20 by default.

### Teams and AIs (`GameServerTeamsProofs`)

Any players, teams, start script, number of AIs and of requests:

* `TypeCorrect` (`TypeOK`), `Agreement` (`CopiesAgree`), `AIFound` (`StateChangeFindsAI`), `AIsLinked`
  (`LiveAIsHaveLinks`);
* `AlwaysObeyed` (`AliveRuns`).

`CopiesAgree` compares clients that have read equally much; it is not inductive, because it says
nothing of clients of which one is ahead. The invariant says that there is one
history (`OneHistory`): a sequence of broadcasts, and the view after each, such that
every client has the view of its place in it and the rest is on its way (`Follows`), and every
broadcast about an AI finds the AI in the view before it (`Applicable`). For the
next broadcast to be applicable, the AIs of the server are among those of the last view, and an AI
that the server takes to be reloading is reloading there (`Agrees`): otherwise a client
would remove an AI that the server keeps. The server may have fewer, since it frees
ids when a team is given away. `SeesFacts` shows that what a message makes of a view does not depend
on whose it is, although `ClientReadNet` treats local AIs differently.

`AliveRuns` is about the AIs that the server has, not about those that still run on a client after the server has freed their ids
(see "Observed while modelling"), and says something only of states in which nothing is on the way. In the others, what will be is
in the broadcasts that the host has still to read, in the reports it will make of them, and in those on
the way to the server. The invariant (`Obeyed`, of the same history) says for each AI of the server, where
"own" means that the last view has it as its host's:

* the AI will run on its host when that has read everything (`WillRun`), or is own and will be
  reported dead (`WillSayDead`: a report is on its way, or a broadcast that the host will answer by one);
* if it is own and not alive on the server, it will be reported dead, or, if it is dead and about to
  be reloaded, alive (`WillSayAlive`).

When the host reads a broadcast that it answers, the answer moves from what it will say to what it has said;
when the server hears a report, it removes the AI or broadcasts the new status, which every lemma
about the server treats alike: an AI is left as it was (`Left`), gets the status that is broadcast
(`Told`) or is made (`Made`), and no other report is lost. Who owns an AI decides whether the host destroys
it, so that an AI that is not own is left running, whatever its status: this is the exception that
`AliveRuns` makes, and the proof shows that there is no other.

### The thread pool (`ThreadPoolFrames`, `ThreadPoolProofs`)

Any number of workers, any call sites, bounds, steps and nesting of loops, any sequence of calls, rings
of any size:

* `TypeCorrect`: `Spec => []TypeOK`, also when groups are recycled too early;
* `RemainingCounts` (`RemainingExact`), `NothingLeftToRun` (`NothingLeftBehind`), `OncePerIteration`
  (`EachIterationOnce`), under `FreeSpec`;
* `Refinement`: `FreeSpec => ImplementsParallelFor`;
* `FirstRound`: `Spec /\ []NeverRecycled => FreeSpec`.

The hypothesis is needed: `pool_recycled` is a behaviour of `Spec` in which `EachIterationOnce` is violated.
It is not empty: with two workers, one site called three times and a ring of two groups, TLC reaches 5572
states under `FreeSpec`, among them those in which the ring has come round and all three have
returned (and finds the properties and the refinement to hold, as proved). And `FirstRound` proves
that it holds of the code as it is as long as no call site has made more calls than its ring has
groups (`NeverRecycled`), so that until then the theorems hold without it.

The frames of the threads' stacks are named by places, a thread and a depth, since several threads execute
the same group and each may be buried under other work. `ThreadPoolFrames` shows what each step does
to them: the top frame becomes another one, gets one above it, or goes. The parts of `IndInv`:

* `FramesInv`: what waits under another frame is a waiting caller or a body, and a loop above a body is that
  of its iteration;
* `CallsInv`: calls have different identities, one frame each, and a nested call tells that its
  iteration has started, so that an iteration executed once calls its loop once;
* `GroupsInv`: a group belongs to the last call that got it. Whoever executes it or has it
  in a queue finds it filled (`Filled`), which is where the hypothesis enters;
* `IterationsInv`: the counter of a group divides its iterations into those taken and those not, each
  that was taken is executed by one frame or has been executed, and none has been twice;
* `SerialInv`: a loop run by its caller has at most the iteration 0;
* `CountInv`: `remaining` is the number of iterations of the loop, less those executed, and the
  executed ones that threads have still to count (`Uncounted`). Zero therefore means that all were
  executed (`ReturnedInv`), although `WaitForFinished` looks at nothing else.

`NothingLeftBehind` is about what the hypothesis leaves open: a loop has returned, and workers still have its group,
in `ExecuteLoop` or in their queues. That no iteration is left for them follows from `IterationsInv` (every iteration is
executed, so each was taken); that none of them is within one needs `CountedInv`: an iteration that was executed and
not counted keeps the caller from returning.

`CountInv` counts a set: `TaskCount` rounds up by division. `IterationsCounted`, that it is the number of
multiples of the step below the bound, is where a step that does not divide the range comes in.

### Messages (`MessageStreamProofs`)

Messages of any kinds, of any length and any claimed length, chunks of any size, any bandwidth:

* `TypeCorrect` (`TypeOK`), `PingsExact` (`PingsCounted`), `NoPingWaits` (`PingsSkipQueue`);
* `FramesWhole` (`FramesFound`) and `Refinement` (`Spec => ImplementsStream`), if `LengthsTold`.

`LengthsTold` says of the kinds of messages that none is longer than the length it states. It is a
hypothesis, and no assumption of the module, because the code sees to it for some messages only
(see "Observed while modelling"), and the first three theorems do without it. It is needed: the tail of a
message that states less than it has is nobody's, and `FlattenSeq(Parsed(bytes).packets)` lacks it. The kinds
of the run satisfy it.

Each loop has an invariant of its own that a turn keeps, a bound on its turns (the bytes or packets that are
left), and a lemma that says what its end therefore is: `FlushTurnInv` for `Filled`,
`ParseTurnWhole` for `Parsed`, `ScanTurnInv` for `Scanned`. The invariants of the module:

* `TypeInv`: what is anywhere is made of bytes that were sent, chunks are neither empty nor
  too large, and `numPings` is the count of pings in the queue, or not less. On a `CLocalConnection` a
  deletion subtracts the ping in front, if there is one; then a ping is still there or was the one deleted, so the count
  stays high enough;
* `WholeInv`: there is a sequence `W` of whole messages whose bytes are the kept fragment and, behind it, the
  chunks; and what waits of the messages sent is, in this order, what was taken, what waits in
  the queue, in `W` and in `outgoingData` (`OnTheWay`).

Neither says where a message is cut. That no flush ends within a message is what makes `W` whole: the
loop's invariant allows for a message begun, of which a part is in the buffer and the rest in front of
`outgoingData`, and `partialPacket` keeps `sendMore` true until it is done. For the refinement, `SendData`
submits a message if it waits and `GetData` delivers one if it waits; all other steps are invisible.

### Induction (`InductionFacts`)

The induction theorems of the library take a predicate as a parameter, which the provers cannot
instantiate. `Induction` states it of sets, by counting: an injection of `0..t` into `1..t` does not
exist. `Recursion` (a recursive function exists) and `LeastMember` follow.

### Only model-checked

* Liveness, which needs fairness: `EventuallyConnected`, `EventuallyDelivered`,
  `EventuallyAcknowledged`, `EveryCallReturns`, `LostClientsRemoved`, `DivergenceFound`, `EverythingTaken`.
* The runs that exhibit findings.

## 6. Not modelled

`PROJECT.json` gives the reason for each component. In short: the simulation (units, commands,
paths, weapons, maps, visibility) is sequential and numeric, and each client runs the same code, so
what could differ between them is floating point and memory, which a
model of this kind does not see. Lua, AI interfaces, rendering, user interfaces, sound,
input, files, configuration and logging are bindings or input and output. Vendored
libraries are not this program's. Of the modelled components, what is left out is named
with each module above.
