-------------------------- MODULE GameServerTeams --------------------------
(***************************************************************************)
(* Who controls the teams: players and skirmish AIs.                       *)
(*                                                                         *)
(* The server (rts/Net/GameServer.cpp) decides on the requests of players  *)
(* and broadcasts what it accepts. Clients (rts/Net/NetCommands.cpp,       *)
(* rts/ExternalAI/SkirmishAIHandler.cpp, EngineOutHandler.cpp) keep a copy *)
(* of the same data, "has to be consistent with Game.cpp/CPlayerHandler",  *)
(* that they change when a broadcast comes; what a player may request is   *)
(* decided on that copy. An AI runs on its host: it is created when the    *)
(* server's answer to the request comes back, and destroyed when the       *)
(* request to kill it does.                                                *)
(*                                                                         *)
(* All teams are allied, nobody cheats, and the game has started.          *)
(***************************************************************************)
EXTENDS Integers, Sequences, FiniteSets, SequencesExt, FiniteSetsExt

CONSTANTS
    NumPlayers, Teams,
    TeamOf,        \* the team of each player, a spectator from the start has none of Teams
    LeaderOf,      \* the player whom the start script makes leader of each team
    Host,          \* the local client's player: the one who reports dead teams
    AIs,           \* of the start script: a sequence of teams and hosts
    MaxAIs,        \* as many AIs (255)
    MaxRequests,   \* bound on what players ask for
    MaxDeaths      \* bound on the teams that die

Players == 1..NumPlayers
Ids == 0..(MaxAIs - 1)
None == 0

ASSUME TeamsAssumption ==
    /\ NumPlayers \in Nat /\ None \notin Players /\ Host \in Players
    /\ DOMAIN TeamOf = Players /\ LeaderOf \in [Teams -> Players]
    /\ AIs \in Seq([team : Teams, host : Players])
    /\ MaxAIs \in Nat \ {0} /\ Len(AIs) <= MaxAIs
    /\ MaxRequests \in Nat /\ MaxDeaths \in Nat

VARIABLES
    spectator, leader,
    active,          \* teams that are
    skirmishAIs,     \* a function of the ids in use
    freeSkirmishAIs, \* the last is the next to be used
    aiClientLinks,   \* ids, for each player
    seen,            \* the copy of each client
    down, up,        \* broadcasts and requests on the way
    requests, isDead \* the teams that the simulation lets die

server == <<spectator, leader, active, skirmishAIs, freeSkirmishAIs, aiClientLinks>>
vars == <<server, seen, down, up, requests, isDead>>

Status == {"alive", "dieing", "reloading", "dead"}  \* initializing makes no difference to alive

AI(t, h) == [team |-> t, host |-> h, status |-> "alive"]

\* Humans in a team, and its AIs, on the server (d == this state) or on a client.
Humans(spectators, t) == {p \in Players \ spectators : TeamOf[p] = t}
AIsIn(ais, t) == {i \in DOMAIN ais : ais[i].team = t}
Controllers(spectators, ais, t) ==
    Cardinality(Humans(spectators, t)) + Cardinality(AIsIn(ais, t))

\* Who leads team t when it is up to these: a human of the team, the host of an AI, nobody.
Successor(spectators, ais, t) ==
    IF Humans(spectators, t) # {} THEN Min(Humans(spectators, t))
    ELSE IF AIsIn(ais, t) # {} THEN ais[Min(AIsIn(ais, t))].host
    ELSE None

StartAIs == [i \in 0..(Len(AIs) - 1) |-> AI(AIs[i + 1].team, AIs[i + 1].host)]
BugStartFree == [i \in 1..(MaxAIs - Len(AIs)) |-> MaxAIs - i + 1]
StartFree == [i \in 1..(MaxAIs - Len(AIs)) |-> MaxAIs - i]
StartSpectators == {p \in Players : TeamOf[p] \notin Teams}

Copy == [spectator |-> StartSpectators,
         leader |-> LeaderOf,
         ais |-> StartAIs,
         dead |-> {},
         creating |-> {},  \* localTeamAIs
         running |-> {}]   \* activeSkirmishAIs of this client

Init ==
    /\ spectator = StartSpectators
    /\ skirmishAIs = StartAIs
    /\ freeSkirmishAIs = StartFree
    /\ leader = Copy.leader
    /\ active = {t \in Teams : Controllers(StartSpectators, StartAIs, t) > 0}
    /\ aiClientLinks = [p \in Players |-> {i \in DOMAIN StartAIs : StartAIs[i].host = p}]
    /\ seen = [p \in Players |-> [Copy EXCEPT !.running = aiClientLinks[p]]]
    /\ down = [p \in Players |-> <<>>] /\ up = [p \in Players |-> <<>>]
    /\ requests = 0 /\ isDead = {}
-----------------------------------------------------------------------------
(* Requests of players, on what their client knows *)

GiveAway(p, from, to) == [type |-> "giveaway", player |-> p, from |-> from, to |-> to]
Resigns(p) == [type |-> "resign", player |-> p]
Creates(p, i, t) == [type |-> "created", player |-> p, id |-> i, team |-> t]
StateChanged(p, i, s) == [type |-> "state", player |-> p, id |-> i, status |-> s]
Died(t) == [type |-> "died", team |-> t]

Local(p, t) == {i \in AIsIn(seen[p].ais, t) : seen[p].ais[i].host = p}

Request(p, m) ==
    /\ requests < MaxRequests
    /\ requests' = requests + 1
    /\ up' = [up EXCEPT ![p] = Append(@, m)]
    /\ UNCHANGED <<server, down, isDead>>

Spectate(p) ==
    /\ p \notin seen[p].spectator
    /\ Request(p, Resigns(p))
    /\ UNCHANGED seen

GiveOwnTeam(p, to) ==
    /\ p \notin seen[p].spectator
    /\ {to, TeamOf[p]} \cap seen[p].dead = {} /\ to # TeamOf[p]
    /\ Request(p, GiveAway(p, TeamOf[p], to))
    /\ UNCHANGED seen

\* /aikill of a team, /aireload, /aikill with a team that receives the units. They are
\* about the first local AI of the team. The team that receives may be the same.
AIKill(p, t) ==
    /\ Local(p, t) # {} /\ t \notin seen[p].dead
    /\ Request(p, StateChanged(p, Min(Local(p, t)), "dieing"))
    /\ UNCHANGED seen

AIReload(p, t) ==
    /\ Local(p, t) # {} /\ t \notin seen[p].dead
    /\ Request(p, StateChanged(p, Min(Local(p, t)), "reloading"))
    /\ UNCHANGED seen

AIKillShare(p, t, to) ==
    /\ Local(p, t) # {} /\ t \notin seen[p].dead
    /\ Request(p, GiveAway(p, t, to))
    /\ UNCHANGED seen

\* /aicontrol: NetCreateLocalSkirmishAI.
AIControl(p, t) ==
    /\ seen[p].leader[t] \in {p, None} /\ t \notin seen[p].dead
    /\ AIsIn(seen[p].ais, t) = {} /\ t \notin seen[p].creating
    /\ seen' = [seen EXCEPT ![p].creating = @ \cup {t}]
    /\ Request(p, Creates(p, 0, t))  \* the server ignores the id
-----------------------------------------------------------------------------
(* The server: ProcessPacket *)

Broadcast(m) == down' = [p \in Players |-> Append(down[p], m)]

\* The requests m of p that come next.
Takes(p, type) ==
    /\ up[p] # <<>> /\ Head(up[p]).type = type
    /\ up' = [up EXCEPT ![p] = Tail(@)]
    /\ UNCHANGED <<seen, requests, isDead>>

\* A team is left without a controller.
Abandoned(t) == active' = active \ {t} /\ leader' = [leader EXCEPT ![t] = None]

RejectedGiveAway(p, from) == p \in spectator \/ (from # TeamOf[p] /\ leader[from] # p)

\* The AI is gone, and its id free.
Release(i) ==
    /\ skirmishAIs' = [j \in DOMAIN skirmishAIs \ {i} |-> skirmishAIs[j]]
    /\ freeSkirmishAIs' = Append(freeSkirmishAIs, i)

AIsOf(p, t) == {i \in AIsIn(skirmishAIs, t) : skirmishAIs[i].host = p}

\* What element 0 of giverTeamPlayerAIs may be: of an empty vector, anything.
FirstAI(p, t) == IF AIsOf(p, t) # {} THEN {Min(AIsOf(p, t))} ELSE Ids

ProcessGiveAway(p) ==
    LET m == Head(up[p])
        own == m.from = TeamOf[p]
        humans == Humans(spectator, m.from)
    IN
    /\ Takes(p, "giveaway")
    /\ \/ /\ RejectedGiveAway(p, m.from)
          /\ UNCHANGED <<server, down>>
       \/ /\ ~RejectedGiveAway(p, m.from)
          /\ Broadcast(m)
          /\ IF own THEN spectator' = spectator \cup {p} ELSE UNCHANGED spectator
          /\ IF ~own /\ humans = {}
             THEN \E i \in FirstAI(p, m.from) : Release(i)
             ELSE UNCHANGED <<skirmishAIs, freeSkirmishAIs>>
          /\ IF (own \/ humans = {}) /\ Controllers(spectator, skirmishAIs, m.from) = 1
             THEN Abandoned(m.from) ELSE UNCHANGED <<active, leader>>
          /\ UNCHANGED aiClientLinks

ProcessResign(p) ==
    /\ Takes(p, "resign")
    /\ IF p \in spectator THEN UNCHANGED <<server, down>>
       ELSE /\ Broadcast(Head(up[p]))
            /\ spectator' = spectator \cup {p}
            /\ leader' = [t \in Teams |->
                  IF leader[t] = p THEN Successor(spectator', skirmishAIs, t) ELSE leader[t]]
            /\ active' = {t \in active : leader[t] = p => leader'[t] # None}
            /\ UNCHANGED <<skirmishAIs, freeSkirmishAIs, aiClientLinks>>

\* The local client's simulation lets a team die. Its AIs are reported by their hosts.
ProcessTeamDied(p) ==
    /\ Takes(p, "died")
    /\ IF p # Host THEN UNCHANGED server
       ELSE /\ Abandoned(Head(up[p]).team)
            /\ spectator' = spectator \cup Humans(spectator, Head(up[p]).team)
            /\ UNCHANGED <<skirmishAIs, freeSkirmishAIs, aiClientLinks>>
    /\ UNCHANGED down

BugLink(p, i) == aiClientLinks' = [aiClientLinks EXCEPT ![p] = @ \cup {Head(up[p]).id}]
Link(p, i) == aiClientLinks' = [aiClientLinks EXCEPT ![p] = @ \cup {i}]

\* aiControlFlags, which the local client toggles for any player at any time, is a choice.
ProcessAICreated(p) ==
    LET t == Head(up[p]).team
        i == Last(freeSkirmishAIs)
    IN
    /\ Takes(p, "created")
    /\ \E aiControlFlag \in BOOLEAN :
       IF ~aiControlFlag /\ leader[t] \in {p, None} /\ freeSkirmishAIs # <<>>
       THEN /\ freeSkirmishAIs' = Front(freeSkirmishAIs)
            /\ Link(p, i)
            /\ skirmishAIs' = [j \in DOMAIN skirmishAIs \cup {i} |->
                  IF j = i THEN AI(t, p) ELSE skirmishAIs[j]]
            /\ Broadcast(Creates(p, i, t))
            /\ leader' = [leader EXCEPT ![t] = p]
            /\ active' = IF leader[t] = None THEN active \cup {t} ELSE active
            /\ UNCHANGED spectator
       ELSE UNCHANGED <<server, down>>

ProcessAIStateChanged(p) ==
    LET m == Head(up[p])
        i == m.id
        ai == skirmishAIs[i]
    IN
    /\ Takes(p, "state")
    /\ IF i \in DOMAIN skirmishAIs /\ p \in {skirmishAIs[i].host, leader[skirmishAIs[i].team]}
       THEN /\ Broadcast(m)
            /\ IF m.status = "dead" /\ ai.status # "reloading"
               THEN /\ Release(i)
                    /\ aiClientLinks' = [aiClientLinks EXCEPT ![p] = @ \ {i}]
                    /\ IF Controllers(spectator, skirmishAIs, ai.team) = 1
                       THEN Abandoned(ai.team) ELSE UNCHANGED <<active, leader>>
               ELSE /\ skirmishAIs' = [skirmishAIs EXCEPT ![i].status = m.status]
                    /\ UNCHANGED <<active, leader, freeSkirmishAIs, aiClientLinks>>
            /\ UNCHANGED spectator
       ELSE UNCHANGED <<server, down>>
-----------------------------------------------------------------------------
(* The simulation, which all clients run in step, lets a team die: at some     *)
(* place among the messages.                                                   *)

TeamDies(t) ==
    /\ t \notin isDead /\ Cardinality(isDead) < MaxDeaths
    /\ isDead' = isDead \cup {t}
    /\ Broadcast(Died(t))
    /\ UNCHANGED <<server, seen, up, requests>>
-----------------------------------------------------------------------------
(* Clients: ClientReadNet *)

\* A message m has come to client p, whose copy is d. What it becomes, and what p answers.
SeesGiveAway(d, m) ==
    LET own == m.from = TeamOf[m.player]
        humans == Humans(d.spectator, m.from)
    IN  [d EXCEPT
          !.spectator = IF own /\ Cardinality(humans) # 1 THEN @ \cup {m.player} ELSE @,
          !.leader[m.from] =
              IF (own \/ humans = {}) /\ Controllers(d.spectator, d.ais, m.from) = 1
              THEN None ELSE @]

SeesResign(d, m) ==
    LET s == d.spectator \cup {m.player} IN
    [d EXCEPT !.spectator = s,
              !.leader = [t \in Teams |->
                  IF @[t] = m.player THEN Successor(s, d.ais, t) ELSE @[t]]]

BugAdded(ais, m, p) ==
    IF m.id \in DOMAIN ais \/ m.player # p THEN ais
    ELSE [j \in DOMAIN ais \cup {m.id} |-> IF j = m.id THEN AI(m.team, m.player) ELSE ais[j]]
\* AddSkirmishAI.
Added(ais, m, p) ==
    IF m.id \in DOMAIN ais THEN ais
    ELSE [j \in DOMAIN ais \cup {m.id} |-> IF j = m.id THEN AI(m.team, m.player) ELSE ais[j]]

SeesCreated(d, m, p) ==
    [d EXCEPT
        !.ais = Added(@, m, p),
        !.creating = IF m.id \in DOMAIN d.ais THEN @ ELSE @ \ {m.team},
        !.leader[m.team] = IF @ = None THEN m.player ELSE @,
        !.running = IF m.player = p THEN @ \cup {m.id} ELSE @]

BugRemoved(old, new) == new = "dead"
Removed(old, new) == new = "dead" /\ old # "reloading"

\* The host of an AI destroys it; it is gone, or made again, when that has been heard.
SeesState(d, m, p) ==
    LET i == m.id
        ai == d.ais[i]
    IN
    IF ai.host = p /\ m.status \in {"dieing", "reloading"}
    THEN [d EXCEPT !.ais[i].status = m.status, !.running = @ \ {i}]
    ELSE IF Removed(ai.status, m.status)
    THEN [d EXCEPT !.ais = [j \in DOMAIN @ \ {i} |-> @[j]],
                   !.creating = @ \ {ai.team},
                   !.leader[ai.team] =
                       IF Controllers(d.spectator, d.ais, ai.team) = 1 THEN None ELSE @]
    ELSE [d EXCEPT !.ais[i].status = m.status,
                   !.running = IF m.status = "dead" /\ ai.host = p THEN @ \cup {i} ELSE @]

SeesDied(d, m) ==
    IF m.team \in d.dead THEN d
    ELSE [d EXCEPT !.dead = @ \cup {m.team}, !.spectator = @ \cup Humans(@, m.team)]

Sees(d, m, p) ==
    CASE m.type = "giveaway" -> SeesGiveAway(d, m)
      [] m.type = "resign" -> SeesResign(d, m)
      [] m.type = "created" -> SeesCreated(d, m, p)
      [] m.type = "state" -> SeesState(d, m, p)
      [] m.type = "died" -> SeesDied(d, m)

BugAnswers(d, m, p) ==
    CASE m.type = "created" /\ m.player = p -> <<StateChanged(p, m.id, "alive")>>
      [] m.type = "state" /\ d.ais[m.id].host = p /\ m.status \in {"dieing", "reloading"} ->
            <<StateChanged(p, m.id, "dead")>>
      [] OTHER -> <<>>
Answers(d, m, p) ==
    CASE m.type = "created" /\ m.player = p -> <<StateChanged(p, m.id, "alive")>>
      [] m.type = "state" /\ d.ais[m.id].host = p ->
            IF m.status \in {"dieing", "reloading"} THEN <<StateChanged(p, m.id, "dead")>>
            ELSE IF m.status = "dead" /\ d.ais[m.id].status = "reloading"
            THEN <<StateChanged(p, m.id, "alive")>>
            ELSE <<>>
      [] m.type = "died" /\ m.team \notin d.dead ->
            <<m>> \o [k \in DOMAIN SetToSeq(Local(p, m.team)) |->
                        StateChanged(p, SetToSeq(Local(p, m.team))[k], "dieing")]
      [] OTHER -> <<>>

\* GetSkirmishAI and GetLocalSkirmishAIInCreation return nullptr, which is dereferenced.
NoSuchAI(p) == LET m == Head(down[p]) IN m.type = "state" /\ m.id \notin DOMAIN seen[p].ais
NotInCreation(p) ==
    LET m == Head(down[p]) IN
    m.type = "created" /\ m.player = p /\ m.team \notin seen[p].creating
ReadsNull(p) == NoSuchAI(p) \/ NotInCreation(p)

ClientReadNet(p) ==
    LET m == Head(down[p]) IN
    /\ down[p] # <<>>
    /\ ~ReadsNull(p)
    /\ down' = [down EXCEPT ![p] = Tail(@)]
    /\ seen' = [seen EXCEPT ![p] = Sees(@, m, p)]
    /\ up' = [up EXCEPT ![p] = @ \o Answers(seen[p], m, p)]
    /\ UNCHANGED <<server, requests, isDead>>

Next ==
    \/ \E p \in Players :
          \/ Spectate(p)
          \/ \E t \in Teams : AIKill(p, t) \/ AIReload(p, t) \/ AIControl(p, t)
          \/ \E to \in Teams : GiveOwnTeam(p, to) \/ \E t \in Teams : AIKillShare(p, t, to)
          \/ ProcessGiveAway(p) \/ ProcessResign(p) \/ ProcessTeamDied(p)
          \/ ProcessAICreated(p) \/ ProcessAIStateChanged(p)
          \/ ClientReadNet(p)
    \/ \E t \in Teams : TeamDies(t)

Spec == Init /\ [][Next]_vars
-----------------------------------------------------------------------------
(* Properties *)

\* The tables of the server and of the clients name teams, players and ids that exist.
TypeOK ==
    /\ spectator \subseteq Players /\ active \subseteq Teams /\ isDead \subseteq Teams
    /\ leader \in [Teams -> Players \cup {None}]
    /\ DOMAIN skirmishAIs \subseteq Ids /\ ToSet(freeSkirmishAIs) \subseteq Ids
    /\ \A i \in DOMAIN skirmishAIs : skirmishAIs[i] \in [team : Teams, host : Players, status : Status]
    /\ aiClientLinks \in [Players -> SUBSET Ids]
    /\ \A p \in Players :
          /\ seen[p].spectator \subseteq Players /\ seen[p].dead \subseteq Teams
          /\ seen[p].creating \subseteq Teams /\ seen[p].running \subseteq Ids
          /\ seen[p].leader \in [Teams -> Players \cup {None}]
          /\ DOMAIN seen[p].ais \subseteq Ids

\* ClientReadNet dereferences what GetSkirmishAI returns for the id in an AI_STATE_CHANGED:
\* the server broadcasts none about an AI that the clients do not have, whatever requests of
\* others it has processed in between, and although it frees ids that they still use.
StateChangeFindsAI == \A p \in Players : down[p] # <<>> => ~NoSuchAI(p)

\* Clients that have read the same messages agree on spectators, leaders, dead teams and on
\* whose AIs there are: what is local, created or destroyed on one of them makes no difference.
CopiesAgree ==
    LET shared(p) == [spectator |-> seen[p].spectator, leader |-> seen[p].leader,
                      dead |-> seen[p].dead, ids |-> DOMAIN seen[p].ais,
                      ais |-> [i \in DOMAIN seen[p].ais |->
                                  <<seen[p].ais[i].team, seen[p].ais[i].host>>]]
    IN  \A p, q \in Players : Len(down[p]) = Len(down[q]) => shared(p) = shared(q)

\* Once nothing is on the way, each AI that the server has runs on its host, and is alive: kills,
\* reloads, shares and creations that cross each other leave none half-way. The exception is an
\* AI with the id of one that was given away: its host, whose copy says that it is another's,
\* does not obey what is broadcast about it, and it may be dieing for ever.
AliveRuns ==
    (\A p \in Players : down[p] = <<>> /\ up[p] = <<>>)
        => \A i \in DOMAIN skirmishAIs :
              LET ai == skirmishAIs[i] IN
              /\ i \in seen[ai.host].running
              /\ seen[ai.host].ais[i].host = ai.host => ai.status = "alive"

\* The AIs in use have a link on their host's seat, over which their messages are counted and
\* sent, although the link that is erased is that of who reports the AI dead, and none is
\* erased when a team is given away.
LiveAIsHaveLinks ==
    \A i \in DOMAIN skirmishAIs : i \in aiClientLinks[skirmishAIs[i].host]

\* "Stores detailed info locally and sends synced stuff in a message to the server, and real
\* creation will happen when receiving the answer" (SkirmishAIHandler.h): when the answer
\* comes, the stored info is there.
CreationRemembered == \A p \in Players : down[p] # <<>> => ~NotInCreation(p)
=============================================================================
