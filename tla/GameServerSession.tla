------------------------- MODULE GameServerSession -------------------------
(***************************************************************************)
(* Who takes part in a game: the sessions of the game server               *)
(* (rts/Net/GameServer.cpp, GameParticipant.cpp).                          *)
(*                                                                         *)
(* The start script has seats for players and spectators. Clients connect, *)
(* load, confirm their start position, leave, are kicked, are lost and     *)
(* come back, while the server broadcasts. Everything it broadcasts is     *)
(* also put into packetCache, from which a client that comes late is told  *)
(* what it missed, unless nobody can come late.                            *)
(*                                                                         *)
(* A link is a connection as the server sees it; the transport below it is *)
(* the module UdpConnection, so what is sent on a link arrives in order. A *)
(* client's message is handled some time after it was sent: the action of  *)
(* the client is the handling. Seats are numbered from 1.                  *)
(***************************************************************************)
EXTENDS Integers, Sequences, SequencesExt

CONSTANTS
    Names,        \* names that clients use
    Host,         \* name of the client in the server's own process, or another value
    Anonymous,    \* "~" and a name: an unknown spectator
    Script,       \* seats of the start script: [name, spectator, team]
    MaxLinks,     \* bound on accepted connections
    MaxHistory,   \* bound on broadcasts after which nobody connects any more
    MaxChatter    \* ... and nothing is sent that clients could send over and over

ASSUME SessionAssumption ==
    /\ Anonymous \notin Names
    /\ MaxLinks \in Nat /\ MaxHistory \in Nat /\ MaxChatter \in Nat
    /\ Script \in Seq([name : Names, spectator : BOOLEAN, team : Nat])
    /\ \A i, j \in DOMAIN Script : i # j => Script[i].name # Script[j].name

VARIABLES
    allowSpecJoin,     \* settings of the server
    reconnectTimeout,  \* whether it is positive
    players,           \* the seats, a sequence that grows, each with the state of the
                       \* participant and whether its link has a running client
    teams,             \* active teams
    links,             \* the links accepted, oldest first, with all that was sent on each
                       \* and whether it was handed to a second client
    packetCache,
    canReconnect,
    accepting,         \* acceptNewConnections of the listener
    readyTime,         \* whether it is set: the countdown runs
    gameHasStarted,
    quitServer,
    history            \* everything broadcast

config == <<allowSpecJoin, reconnectTimeout>>
game == <<accepting, readyTime, gameHasStarted>>
vars == <<config, players, teams, links, packetCache, canReconnect, game, quitServer, history>>

NoLink == 0
NoSeat == 0
Msg(type, i) == [type |-> type, seat |-> i]

Seat(name, spectator, team, midgame) ==
    [name |-> name, spectator |-> spectator, team |-> team, isMidgameJoin |-> midgame,
     readyToStart |-> FALSE, myState |-> "UNCONNECTED", clientLink |-> NoLink, loopback |-> FALSE,
     client |-> FALSE]

Init ==
    /\ allowSpecJoin \in BOOLEAN /\ reconnectTimeout \in BOOLEAN
    /\ players = [i \in DOMAIN Script |->
                    Seat(Script[i].name, Script[i].spectator, Script[i].team, FALSE)]
    /\ teams = {} /\ links = <<>> /\ packetCache = <<>>
    /\ canReconnect = FALSE /\ accepting = TRUE
    /\ readyTime = FALSE /\ gameHasStarted = FALSE /\ quitServer = FALSE
    /\ history = <<>>
-----------------------------------------------------------------------------
(* Sending *)

\* What was sent on a link: its header, broadcasts, and what follows from the Quit on.
OnWire(link) == link.header \o link.log \o link.rest

BugSent(lk, pl, ms) ==
    [l \in DOMAIN lk |->
        IF \E i \in DOMAIN pl : pl[i].clientLink = l /\ pl[i].myState = "INGAME"
        THEN [lk[l] EXCEPT !.log = @ \o ms] ELSE lk[l]]

\* GameParticipant::SendData for the seats pl.
Sent(lk, pl, ms) ==
    [l \in DOMAIN lk |->
        IF \E i \in DOMAIN pl : pl[i].clientLink = l /\ pl[i].myState # "DISCONNECTING"
        THEN IF lk[l].rest = <<>> THEN [lk[l] EXCEPT !.log = @ \o ms]
                                  ELSE [lk[l] EXCEPT !.rest = @ \o ms]
        ELSE lk[l]]

BugCached(reconnect, started) == reconnect \/ ~started

\* Whether Broadcast keeps what it sends.
Cached(reconnect, started) == reconnect \/ allowSpecJoin \/ ~started

\* What Broadcast does besides sending, for several messages in a row.
Record(ms, keep) ==
    /\ history' = history \o ms
    /\ packetCache' = IF keep THEN packetCache \o ms ELSE packetCache

\* A broadcast that is all that happens to the links.
Broadcast(ms) ==
    /\ Record(ms, Cached(canReconnect, gameHasStarted))
    /\ links' = Sent(links, players, ms)

\* The link of the seat goes on after GameParticipant::Kill.
Lingers(p, flush) == p.clientLink # NoLink /\ (flush \/ p.myState = "DISCONNECTING")

BugKilled(p, flush) ==
    [p EXCEPT !.myState = IF Lingers(p, flush) THEN "DISCONNECTING" ELSE "DISCONNECTED",
              !.clientLink = IF Lingers(p, flush) THEN @ ELSE NoLink,
              !.client = @ /\ Lingers(p, flush)]

\* The seat after GameParticipant::Kill. A client ends when its link is closed.
Killed(p, flush) ==
    [p EXCEPT !.loopback = FALSE,
              !.myState = IF Lingers(p, flush) THEN "DISCONNECTING" ELSE "DISCONNECTED",
              !.clientLink = IF Lingers(p, flush) THEN @ ELSE NoLink,
              !.client = @ /\ Lingers(p, flush)]

\* PlayerLeft is broadcast, then the player is killed with a Quit.
Leave(i, flush) ==
    LET quit == IF players[i].myState = "DISCONNECTING" THEN <<>> ELSE <<Msg("Quit", i)>>
        told == Sent(links, players, <<Msg("PlayerLeft", i)>>)
    IN
    /\ Record(<<Msg("PlayerLeft", i)>>, Cached(canReconnect, gameHasStarted))
    /\ links' = [told EXCEPT ![players[i].clientLink].rest = @ \o quit]
    /\ players' = [players EXCEPT ![i] = Killed(@, flush)]
-----------------------------------------------------------------------------
(* BindConnection *)

\* A user runs one client at a time. The listener hands new addresses over only
\* while it accepts; the host's own client does not need it.
MayConnect(n) ==
    /\ ~quitServer
    /\ \A i \in DOMAIN players : players[i].client => links[players[i].clientLink].name # n
    /\ IF n = Host THEN ~gameHasStarted ELSE accepting

MayReconnect(n) ==
    /\ ~quitServer /\ accepting /\ reconnectTimeout /\ n # Host
    /\ \E i \in DOMAIN players : players[i].client /\ links[players[i].clientLink].name = n

\* The first client whose link can be taken up again sets it, accepted or not.
SetCanReconnect(n) == canReconnect' = (canReconnect \/ (reconnectTimeout /\ n # Host))

Known(n) == {i \in DOMAIN players : players[i].name = n}

Connected(p) == p.clientLink # NoLink /\ p.myState # "DISCONNECTING"

\* CheckTimeout(-1): the link has been silent long enough, which may or may not be so.
Silent(p) == IF reconnectTimeout /\ links[p.clientLink].name # Host THEN BOOLEAN ELSE {FALSE}

BugHeader(i, p) ==
    <<Msg("GameData", i), Msg("SetPlayerNum", i)>>
    \o (IF p.spectator THEN <<>> ELSE <<Msg("JoinTeam", i)>>)

\* What a player is sent before the broadcasts it missed.
Header(i, p) ==
    (IF p.isMidgameJoin THEN <<Msg("CreateNewPlayer", i)>> ELSE <<>>)
    \o <<Msg("GameData", i), Msg("SetPlayerNum", i)>>
    \o (IF p.spectator THEN <<>> ELSE <<Msg("JoinTeam", i)>>)

\* Seat i of pl gets a new link, after the broadcasts pre to the old seats. The
\* client is there, or only its attempt to reconnect is (client = FALSE). The first
\* of a team has to choose its start position in the game.
Establish(n, i, pl, pre, client) ==
    LET p == pl[i]
        joins == IF p.spectator THEN <<>> ELSE <<Msg("JoinTeam", i)>>
        reset == ~p.spectator /\ p.team \notin teams
    IN
    /\ Len(links) < MaxLinks /\ Len(history) < MaxHistory
    /\ Record(pre \o joins, Cached(canReconnect', gameHasStarted))
    /\ links' = Append(Sent(Sent(links, players, pre), pl, joins),
                       [name |-> n, seat |-> i, adopted |-> FALSE,
                        header |-> Header(i, p), log |-> packetCache', rest |-> <<>>])
    /\ players' = [pl EXCEPT ![i].clientLink = Len(links) + 1,
                             ![i].loopback = TRUE,
                             ![i].myState = "CONNECTED",
                             ![i].client = client,
                             ![i].readyToStart = @ /\ ~reset]
    /\ teams' = teams \cup (IF p.spectator THEN {} ELSE {p.team})

\* A client of the script connects, for the first time or again.
BindKnown(n) ==
    /\ MayConnect(n) /\ SetCanReconnect(n)
    /\ \E i \in Known(n) :
          /\ players[i].clientLink = NoLink
          /\ canReconnect' \/ ~gameHasStarted
          /\ Establish(n, i, players, <<>>, TRUE)
    /\ UNCHANGED <<config, game, quitServer>>

BugBindReplacing(n) ==
    /\ MayConnect(n) /\ SetCanReconnect(n)
    /\ \E i \in Known(n) :
          /\ Connected(players[i]) /\ canReconnect' /\ TRUE \in Silent(players[i])
          /\ Establish(n, i, [players EXCEPT ![i] = Killed([@ EXCEPT !.clientLink = NoLink], FALSE)],
                       <<>>, TRUE)
    /\ UNCHANGED <<config, game, quitServer>>

\* It connects although it is connected: the link before has been silent and is
\* given up, without a Quit, which might kill the new one.
BindReplacing(n) ==
    /\ MayConnect(n) /\ SetCanReconnect(n)
    /\ \E i \in Known(n) :
          /\ Connected(players[i]) /\ canReconnect' /\ TRUE \in Silent(players[i])
          /\ Establish(n, i, [players EXCEPT ![i] = Killed([@ EXCEPT !.clientLink = NoLink], FALSE)],
                       <<Msg("PlayerLeft", i)>>, TRUE)
    /\ UNCHANGED <<config, game, quitServer>>

\* It connects while the link of the client that left lingers. This is taken for
\* a reconnection ("there is an open link"): the old link goes to the new client.
BindLingering(n) ==
    /\ Len(history) < MaxHistory
    /\ MayConnect(n) /\ SetCanReconnect(n)
    /\ \E i \in Known(n) :
          /\ players[i].myState = "DISCONNECTING"
          /\ canReconnect' \/ ~gameHasStarted
          /\ ~links[players[i].clientLink].adopted  \* once, as a bound
          /\ players' = [players EXCEPT ![i].myState = "CONNECTED", ![i].client = TRUE]
          /\ links' = [links EXCEPT ![players[i].clientLink].adopted = TRUE]
    /\ UNCHANGED <<config, teams, packetCache, game, quitServer, history>>

BugAddAdditionalUser(n, client) ==
    /\ Known(n) = {} /\ allowSpecJoin
    /\ SetCanReconnect(n)
    /\ Establish(n, Len(players) + 1, Append(players, Seat(Anonymous, TRUE, -1, TRUE)),
                 <<Msg("CreateNewPlayer", Len(players) + 1)>>, client)
    /\ UNCHANGED <<config, game, quitServer>>

\* Somebody unknown gets a seat as a spectator. Its name is prefixed, so it is
\* unknown again the next time. (The local client's command /adduser, which makes such a
\* seat without a connection, is left out.)
AddAdditionalUser(n, client) ==
    /\ Known(n) = {} /\ allowSpecJoin
    /\ SetCanReconnect(n)
    /\ Establish(n, Len(players) + 1, Append(players, Seat(Anonymous, TRUE, 0, TRUE)),
                 <<Msg("CreateNewPlayer", Len(players) + 1)>>, client)
    /\ UNCHANGED <<config, game, quitServer>>

BindUnknown(n) == MayConnect(n) /\ AddAdditionalUser(n, TRUE)

\* A reconnection attempt of somebody unknown is treated the same, on the muted
\* link of the attempt. One of somebody known is refused, or moves the link to
\* another address, which changes nothing here.
Reconnect(n) == MayReconnect(n) /\ AddAdditionalUser(n, FALSE)

\* A client is refused: wrong password or version, game started, not authorised,
\* name in use.
Reject(n) ==
    /\ MayConnect(n) /\ SetCanReconnect(n)
    /\ UNCHANGED <<config, players, teams, links, packetCache, game, quitServer, history>>
-----------------------------------------------------------------------------
(* ServerReadNet and the host *)

\* A message of the player is handled: it comes through the loopback link.
Reads(i) == Connected(players[i]) /\ players[i].loopback /\ players[i].client

\* The client has loaded the game. It says so once, on a seat where it is connected, with the
\* name of the seat (LoadScreen.cpp); the server would take it in any state, and any name.
PlayerName(i) ==
    /\ Reads(i) /\ players[i].myState = "CONNECTED"
    /\ players' = [players EXCEPT ![i].myState = "INGAME"]
    /\ Broadcast(<<Msg("PlayerName", i)>>)
    /\ UNCHANGED <<config, teams, canReconnect, game, quitServer>>

\* A player chooses a start position, or confirms it (ready).
StartPos(i, ready) ==
    /\ Reads(i) /\ players[i].myState = "INGAME" /\ ~players[i].spectator
    /\ Len(history) <= MaxChatter
    /\ players' = [players EXCEPT ![i].readyToStart = ready]
    /\ Broadcast(<<Msg("StartPos", i)>>)
    /\ UNCHANGED <<config, teams, canReconnect, game, quitServer>>

\* The client ends.
Quit(i) ==
    /\ Reads(i)
    /\ Leave(i, TRUE)
    /\ UNCHANGED <<config, teams, canReconnect, game, quitServer>>

KickPlayer(i) ==
    /\ Connected(players[i])
    /\ Leave(i, TRUE)
    /\ UNCHANGED <<config, teams, canReconnect, game, quitServer>>

BugTimeout(i) ==
    /\ players[i].myState = "INGAME" /\ links[players[i].clientLink].name # Host
    /\ Leave(i, FALSE)
    /\ UNCHANGED <<config, teams, canReconnect, game, quitServer>>

\* Nothing has been heard for the network timeout. While the link lingers this is
\* announced in every pass.
Timeout(i) ==
    /\ players[i].clientLink # NoLink /\ links[players[i].clientLink].name # Host
    /\ players[i].myState = "DISCONNECTING" => Len(history) < MaxChatter
    /\ Leave(i, FALSE)
    /\ UNCHANGED <<config, teams, canReconnect, game, quitServer>>

CheckForExpiredConnection(i) ==
    /\ players[i].myState = "DISCONNECTING"
    /\ players' = [players EXCEPT ![i].myState = "DISCONNECTED", ![i].clientLink = NoLink,
                                      ![i].client = FALSE]
    /\ UNCHANGED <<config, teams, links, packetCache, canReconnect, game, quitServer, history>>

\* Any other broadcast.
Message ==
    /\ ~quitServer
    /\ Len(history) < MaxChatter
    /\ Broadcast(<<Msg("Message", NoSeat)>>)
    /\ UNCHANGED <<config, players, teams, canReconnect, game, quitServer>>
-----------------------------------------------------------------------------
(* Update *)

\* Nobody need be waited for after 30 seconds (late) who has not come by then.
Absent(p, late) == p.myState = "UNCONNECTED" /\ late

Unready(p) ==
    \/ p.myState \in {"UNCONNECTED", "CONNECTED"}
    \/ ~p.spectator /\ p.team \in teams /\ ~p.readyToStart

\* By itself or forced by the host.
CheckForGameStart(late, forced) ==
    LET present == {i \in DOMAIN players : ~Absent(players[i], late)} IN
    /\ ~quitServer /\ ~gameHasStarted /\ ~readyTime
    /\ forced \/ (present # {} /\ \A i \in present : ~Unready(players[i]))
    /\ readyTime' = TRUE
    /\ Broadcast(<<Msg("StartPlaying", NoSeat)>>)
    /\ UNCHANGED <<config, players, teams, canReconnect, accepting, gameHasStarted, quitServer>>

\* The countdown is over. If nobody may come later, the cache is emptied and the
\* listener stops accepting. Then the game is announced.
StartGame ==
    LET open == canReconnect \/ allowSpecJoin
        announcement == <<Msg("StartGame", NoSeat)>>
    IN
    /\ ~quitServer /\ readyTime /\ ~gameHasStarted
    /\ gameHasStarted' = TRUE
    /\ accepting' = (accepting /\ open)
    /\ packetCache' = (IF open THEN packetCache ELSE <<>>)
                      \o (IF Cached(canReconnect, TRUE) THEN announcement ELSE <<>>)
    /\ history' = history \o announcement
    /\ links' = Sent(links, players, announcement)
    /\ UNCHANGED <<config, players, teams, canReconnect, readyTime, quitServer>>

\* Everybody has gone, or nobody came in time: the loop of the server ends.
NoClientsExit ==
    /\ ~quitServer
    /\ \A i \in DOMAIN players : players[i].clientLink = NoLink
    /\ quitServer' = TRUE
    /\ UNCHANGED <<config, players, teams, links, packetCache, canReconnect, game, history>>
-----------------------------------------------------------------------------
\* A client ends without a word or is cut off.
ClientLost(i) ==
    /\ players[i].client /\ links[players[i].clientLink].name # Host
    /\ players' = [players EXCEPT ![i].client = FALSE]
    /\ UNCHANGED <<config, teams, links, packetCache, canReconnect, game, quitServer, history>>

BindConnection(n) ==
    BindKnown(n) \/ BindReplacing(n) \/ BindLingering(n) \/ BindUnknown(n) \/ Reconnect(n) \/ Reject(n)

ServerReadNet(i) ==
    \/ PlayerName(i) \/ (\E ready \in BOOLEAN : StartPos(i, ready)) \/ Quit(i)
    \/ KickPlayer(i) \/ Timeout(i)

Update ==
    \/ \E late, forced \in BOOLEAN : CheckForGameStart(late, forced)
    \/ StartGame \/ NoClientsExit \/ Message
    \/ \E i \in DOMAIN players : CheckForExpiredConnection(i)

Next ==
    \/ \E n \in Names : BindConnection(n)
    \/ \E i \in DOMAIN players : ServerReadNet(i) \/ ClientLost(i)
    \/ Update

Lost(i) == i \in DOMAIN players /\ players[i].clientLink # NoLink /\ ~players[i].client

\* The network timeout of a client that is lost runs out, and the server's loop
\* looks for expired connections over and over.
TimeoutLost(i) == Lost(i) /\ Timeout(i)
Expire(i) == i \in DOMAIN players /\ CheckForExpiredConnection(i)

Fairness == \A i \in 1..(Len(Script) + MaxLinks) : WF_vars(TimeoutLost(i)) /\ WF_vars(Expire(i))

Spec == Init /\ [][Next]_vars /\ Fairness
-----------------------------------------------------------------------------
TypeOK ==
    /\ \A i \in DOMAIN players : players[i] \in
          [name : Names \cup {Anonymous}, spectator : BOOLEAN, team : Nat,
           isMidgameJoin : BOOLEAN, readyToStart : BOOLEAN, loopback : BOOLEAN, client : BOOLEAN,
           myState : {"UNCONNECTED", "CONNECTED", "INGAME", "DISCONNECTING", "DISCONNECTED"},
           clientLink : {NoLink} \cup DOMAIN links]
    /\ \A l \in DOMAIN links : links[l].seat \in DOMAIN players /\ links[l].adopted \in BOOLEAN
    /\ {canReconnect, accepting, readyTime, gameHasStarted, quitServer} \subseteq BOOLEAN
    /\ teams \subseteq Nat

\* Seat i takes part and has a link of its own, not that of the client before.
TakesPart(i) ==
    /\ players[i].myState \in {"CONNECTED", "INGAME"}
    /\ ~links[players[i].clientLink].adopted

\* "finally send player all packets he missed until now": whoever takes part has been
\* sent what introduces it to the game and then every broadcast since the server was
\* started, once each and in order, however late it came and whatever happened to it
\* before. (The simulation is deterministic only if this is so.)
StreamComplete ==
    \A i \in DOMAIN players : TakesPart(i) =>
        OnWire(links[players[i].clientLink]) = Header(i, players[i]) \o history

\* The same without the exception: also of a client that came back while the link
\* of the one before was being closed.
EveryStreamComplete ==
    \A i \in DOMAIN players : players[i].myState \in {"CONNECTED", "INGAME"} =>
        OnWire(links[players[i].clientLink]) = Header(i, players[i]) \o history

\* A seat can speak exactly as long as it is spoken to: its loopback link exists if and
\* only if it has a connection of its own that is not being closed.
LoopbackIffConnected ==
    \A i \in DOMAIN players :
        /\ players[i].loopback <=> TakesPart(i)
        /\ players[i].clientLink # NoLink <=>
              players[i].myState \in {"CONNECTED", "INGAME", "DISCONNECTING"}

\* The broadcasts tell their readers who is in the game: a player is in the game if and
\* only if the last they heard of it is its name, and not that it left.
HistoryTellsWhoIsIn ==
    \A i \in DOMAIN players :
        players[i].myState = "INGAME" <=>
            \E k \in DOMAIN history :
                /\ history[k] = Msg("PlayerName", i)
                /\ \A j \in DOMAIN history : j > k => history[j] # Msg("PlayerLeft", i)

\* On every link (of one client) a seat that is not in the start script is introduced before anything
\* else is said of it. (Clients keep the players in an array.)
IntroducedFirst ==
    \A l \in DOMAIN links : ~links[l].adopted =>
        LET log == OnWire(links[l]) IN
        \A k \in DOMAIN log : log[k].seat > Len(Script) =>
            \E j \in 1..k : log[j] = Msg("CreateNewPlayer", log[k].seat)

\* The sessions implement JoinedLog: of each link, the part between its header and
\* its Quit is a stream.
Log == INSTANCE JoinedLog WITH
    streams <- [l \in DOMAIN links |-> links[l].log],
    open <- {players[i].clientLink : i \in {j \in DOMAIN players : TakesPart(j)}}

ImplementsJoinedLog == Log!Spec

\* A client that is gone does not keep its seat for ever, whatever was going on when it
\* was lost: joining, leaving, or an attempt to reconnect. (Clients come and go only so
\* often here, so in the end there is none that is gone and has a seat.)
LostClientsRemoved == <>[](\A i \in DOMAIN players : ~Lost(i))
=============================================================================
