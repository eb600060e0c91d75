----------------------- MODULE GameServerTeamsProofs -----------------------
(***************************************************************************)
(* Proofs about GameServerTeams for any start script and any number of     *)
(* players, teams, AIs, requests and dead teams.                           *)
(***************************************************************************)
EXTENDS GameServerTeams, InductionFacts, SequenceTheorems

\* The sets of spectators that can be: nobody ceases to be one
Spectators == {s \in SUBSET Players : StartSpectators \subseteq s}

\* Who leads each team, if anybody
Leaders == [Teams -> Players \cup {None}]

\* What a table says of an AI
Entry == [team : Teams, host : Players, status : Status]

\* Tables of AIs by their ids
Tables == UNION {[I -> Entry] : I \in SUBSET Ids}

\* What a client knows, and what of it does not depend on which client it is
CopyType == [spectator : Spectators, leader : Leaders, ais : Tables, dead : SUBSET Teams,
             creating : SUBSET Teams, running : SUBSET Ids]

\* What two clients that have read as much agree on
ViewType == [spectator : Spectators, leader : Leaders, ais : Tables, dead : SUBSET Teams]

\* This part of a client's state
View(d) == [spectator |-> d.spectator, leader |-> d.leader, ais |-> d.ais, dead |-> d.dead]

\* The broadcasts that the model tells apart
Messages == [type : {"giveaway"}, player : Players, from : Teams, to : Teams] \cup
            [type : {"resign"}, player : Players] \cup
            [type : {"created"}, player : Players, id : Ids, team : Teams] \cup
            [type : {"state"}, player : Players, id : Ids, status : Status] \cup
            [type : {"died"}, team : Teams]

\* The types, those of the copies and of the messages included
Shapes ==
    /\ spectator \in Spectators /\ leader \in Leaders
    /\ active \subseteq Teams /\ isDead \subseteq Teams
    /\ skirmishAIs \in Tables /\ freeSkirmishAIs \in Seq(Ids)
    /\ aiClientLinks \in [Players -> SUBSET Ids]
    /\ seen \in [Players -> CopyType]
    /\ down \in [Players -> Seq(Messages)] /\ up \in [Players -> Seq(Messages)]

\* What a message makes of a view, on any client
Applied(v, m) ==
    CASE m.type = "giveaway" -> SeesGiveAway(v, m)
      [] m.type = "resign" -> SeesResign(v, m)
      [] m.type = "created" ->
            [v EXCEPT !.ais = Added(@, m, None),
                      !.leader[m.team] = IF @ = None THEN m.player ELSE @]
      [] m.type = "state" ->
            IF Removed(v.ais[m.id].status, m.status)
            THEN [v EXCEPT !.ais = [j \in DOMAIN @ \ {m.id} |-> @[j]],
                           !.leader[v.ais[m.id].team] =
                               IF Controllers(v.spectator, v.ais, v.ais[m.id].team) = 1
                               THEN None ELSE @]
            ELSE [v EXCEPT !.ais[m.id].status = m.status]
      [] m.type = "died" -> SeesDied(v, m)

\* A broadcast about an AI finds it in v.
Applicable(v, m) == m.type = "state" => m.id \in DOMAIN v.ais

\* The broadcasts so far, and what they make of the view with which all begin
Replay(log, views) ==
    /\ log \in Seq(Messages) /\ views \in [0..Len(log) -> ViewType]
    /\ \A n \in 1..Len(log) : /\ Applicable(views[n - 1], log[n])
                              /\ views[n] = Applied(views[n - 1], log[n])

\* How many broadcasts of log client p has read
Read(log, p) == Len(log) - Len(down[p])

\* Client p has the view of those that have read as much, and the rest comes to it.
Follows(log, views, p) ==
    /\ Read(log, p) >= 0
    /\ View(seen[p]) = views[Read(log, p)]
    /\ \A j \in 1..Len(down[p]) : down[p][j] = log[Read(log, p) + j]

\* Who has read everything has the AIs that the server has, if not only these. An AI that the
\* server takes to be reloading is so there.
Agrees(v, ais) ==
    \A i \in DOMAIN ais :
        /\ i \in DOMAIN v.ais
        /\ ais[i].status = "reloading" => v.ais[i].status = "reloading"

\* There is one history that all clients are in, each at some place.
OneHistory(log, views) ==
    /\ Replay(log, views)
    /\ \A p \in Players : Follows(log, views, p)
    /\ Agrees(views[Len(log)], skirmishAIs)

\* At message m in view v, the host h of AI i destroys it, which it will report.
Destroys(v, m, h, i) ==
    m.type = "state" /\ m.id = i /\ m.status \in {"dieing", "reloading"} /\ v.ais[i].host = h

\* At message m in view v, the host h of AI i lets it run, which it will report.
Starts(v, m, h, i) ==
    \/ m.type = "created" /\ m.id = i /\ m.player = h
    \/ /\ m.type = "state" /\ m.id = i /\ m.status = "dead"
       /\ v.ais[i].host = h /\ v.ais[i].status = "reloading"

\* The places in log of what client p has still to read
Unread(log, p) == (Read(log, p) + 1)..Len(log)

\* When h has read everything, AI i runs there.
WillRun(log, views, h, i) ==
    \/ i \in seen[h].running /\ \A k \in Unread(log, h) : ~ Destroys(views[k - 1], log[k], h, i)
    \/ \E k \in Unread(log, h) :
          /\ Starts(views[k - 1], log[k], h, i)
          /\ \A n \in (k + 1)..Len(log) : ~ Destroys(views[n - 1], log[n], h, i)

\* What h has reported of AI i and the server has not heard, or will report
Said(h, i, s) == \E k \in DOMAIN up[h] : up[h][k] = StateChanged(h, i, s)

\* h has still to report AI i dead, or has done so unheard.
WillSayDead(log, views, h, i) ==
    Said(h, i, "dead") \/ \E k \in Unread(log, h) : Destroys(views[k - 1], log[k], h, i)

\* The same for a report that it is alive
WillSayAlive(log, views, h, i) ==
    Said(h, i, "alive") \/ \E k \in Unread(log, h) : Starts(views[k - 1], log[k], h, i)

\* An AI of the server will run on its host, or be reported dead. If the clients' entry is the
\* host's, a status other than alive is one that a report will end.
Obeys(log, views, i) ==
    LET h == skirmishAIs[i].host
        s == skirmishAIs[i].status
        own == views[Len(log)].ais[i].host = h
    IN  /\ WillRun(log, views, h, i) \/ (own /\ WillSayDead(log, views, h, i))
        /\ own => \/ s = "alive"
                  \/ s = "dead" /\ WillSayAlive(log, views, h, i)
                  \/ WillSayDead(log, views, h, i)

\* This holds of every AI of the server.
Obeyed(log, views) == \A i \in DOMAIN skirmishAIs : Obeys(log, views, i)

\* The clients follow one history, and the hosts will have done what it says.
HistoryInv == \E log, views : OneHistory(log, views) /\ Obeyed(log, views)

\* The inductive invariant
IndInv == Shapes /\ HistoryInv /\ LiveAIsHaveLinks

\* What h has reported of AI i is still to be heard after a step.
StillSaid(h, i, s) == Said(h, i, s) => Said(h, i, s)'

\* No report about an AI of the server is lost in a step.
ReportsKept ==
    \A i \in DOMAIN skirmishAIs, h \in Players :
        h = skirmishAIs[i].host => StillSaid(h, i, "dead") /\ StillSaid(h, i, "alive")

\* A step that broadcasts m leaves AI i as it is.
Left(m, i) ==
    /\ m.type \in {"created", "state"} => m.id # i
    /\ i \in DOMAIN skirmishAIs /\ skirmishAIs'[i] = skirmishAIs[i]
    /\ \A h \in Players :
          h = skirmishAIs[i].host => StillSaid(h, i, "dead") /\ StillSaid(h, i, "alive")

\* A step gives AI i the status that m tells.
Told(m, i) ==
    /\ m.type = "state" /\ m.id = i /\ i \in DOMAIN skirmishAIs
    /\ skirmishAIs'[i].host = skirmishAIs[i].host /\ skirmishAIs'[i].status = m.status
    /\ m.status = "dead" => skirmishAIs[i].status = "reloading"
    /\ m.status = "alive" => \A h \in Players : h = skirmishAIs[i].host => StillSaid(h, i, "dead")

\* A step makes AI i, which m tells.
Made(m, i) ==
    /\ m.type = "created" /\ m.id = i
    /\ skirmishAIs'[i].host = m.player /\ skirmishAIs'[i].status = "alive"

-----------------------------------------------------------------------------
(* The tables and the messages                                             *)

\* The ranges of the constants, one by one
LEMMA ConstantTypes ==
    /\ NumPlayers \in Nat /\ MaxAIs \in Nat /\ MaxAIs > 0 /\ 0 \in Ids
    /\ None \notin Players /\ Host \in Players /\ LeaderOf \in [Teams -> Players]
    /\ Len(AIs) \in Nat /\ Len(AIs) <= MaxAIs
    /\ \A i \in 1..Len(AIs) : AIs[i].team \in Teams /\ AIs[i].host \in Players
<1> DEFINE S == [team : Teams, host : Players]
<1>1. AIs \in Seq(S)
  BY TeamsAssumption
<1>2. \A a \in S : a.team \in Teams /\ a.host \in Players
  OBVIOUS
<1> HIDE DEF S
<1>3. Len(AIs) \in Nat /\ \A i \in 1..Len(AIs) : AIs[i] \in S
  BY <1>1
<1> QED
  BY <1>2, <1>3, TeamsAssumption DEF Ids

\* What a table is
LEMMA TableFacts ==
    ASSUME NEW f
    PROVE  f \in Tables <=> /\ f = [i \in DOMAIN f |-> f[i]]
                            /\ DOMAIN f \subseteq Ids
                            /\ \A i \in DOMAIN f : f[i] \in Entry
  BY DEF Tables

\* An entry is determined by its parts.
LEMMA EntryFacts ==
    ASSUME NEW a \in Entry
    PROVE  /\ a.team \in Teams /\ a.host \in Players /\ a.status \in Status
           /\ \A s \in Status : /\ [a EXCEPT !.status = s] \in Entry
                                 /\ [a EXCEPT !.status = s].status = s
  BY DEF Entry

\* A new AI is an entry.
LEMMA NewEntry ==
    ASSUME NEW t \in Teams, NEW h \in Players
    PROVE  AI(t, h) \in Entry /\ AI(t, h).status = "alive" /\ AI(t, h).host = h
  BY DEF AI, Entry, Status

\* Tables without an AI, with an AI, and with a changed AI
LEMMA TableChanges ==
    ASSUME NEW f \in Tables
    PROVE  /\ \A i : [j \in DOMAIN f \ {i} |-> f[j]] \in Tables
           /\ \A i \in Ids, a \in Entry :
                 [j \in DOMAIN f \cup {i} |-> IF j = i THEN a ELSE f[j]] \in Tables
           /\ \A i \in DOMAIN f, s \in Status : [f EXCEPT ![i].status = s] \in Tables
<1>1. /\ f = [i \in DOMAIN f |-> f[i]] /\ DOMAIN f \subseteq Ids
      /\ \A i \in DOMAIN f : f[i] \in Entry
  BY TableFacts
<1>2. ASSUME NEW i
      PROVE  [j \in DOMAIN f \ {i} |-> f[j]] \in Tables
  <2> DEFINE g == [j \in DOMAIN f \ {i} |-> f[j]]
  <2>1. /\ g = [j \in DOMAIN g |-> g[j]] /\ DOMAIN g \subseteq Ids
        /\ \A j \in DOMAIN g : g[j] \in Entry
    BY <1>1
  <2> QED
    BY <2>1, TableFacts
<1>3. ASSUME NEW i \in Ids, NEW a \in Entry
      PROVE  [j \in DOMAIN f \cup {i} |-> IF j = i THEN a ELSE f[j]] \in Tables
  <2> DEFINE g == [j \in DOMAIN f \cup {i} |-> IF j = i THEN a ELSE f[j]]
  <2>1. /\ g = [j \in DOMAIN g |-> g[j]] /\ DOMAIN g \subseteq Ids
        /\ \A j \in DOMAIN g : g[j] \in Entry
    BY <1>1
  <2> QED
    BY <2>1, TableFacts
<1>4. ASSUME NEW i \in DOMAIN f, NEW s \in Status
      PROVE  [f EXCEPT ![i].status = s] \in Tables
  <2> DEFINE g == [f EXCEPT ![i].status = s]
  <2>1. [f[i] EXCEPT !.status = s] \in Entry
    BY <1>1, EntryFacts
  <2>2. g = [j \in DOMAIN f |-> IF j = i THEN [f[i] EXCEPT !.status = s] ELSE f[j]]
    BY <1>1
  <2> HIDE DEF g
  <2>3. /\ g = [j \in DOMAIN g |-> g[j]] /\ DOMAIN g \subseteq Ids
        /\ \A j \in DOMAIN g : g[j] \in Entry
    BY <1>1, <2>1, <2>2
  <2> QED
    BY <2>3, TableFacts DEF g
<1> QED
  BY <1>2, <1>3, <1>4

\* What a message says
LEMMA MessageFacts ==
    ASSUME NEW m \in Messages
    PROVE  /\ m.type \in {"giveaway", "resign", "created", "state", "died"}
           /\ m.type = "giveaway" => m.player \in Players /\ m.from \in Teams /\ m.to \in Teams
           /\ m.type = "resign" => m.player \in Players
           /\ m.type = "created" => m.player \in Players /\ m.id \in Ids /\ m.team \in Teams
           /\ m.type = "state" => m.player \in Players /\ m.id \in Ids /\ m.status \in Status
           /\ m.type = "died" => m.team \in Teams
  BY DEF Messages

\* The least of some players or ids is one of them.
LEMMA MinFacts ==
    ASSUME NEW S, S \subseteq Nat, S # {}
    PROVE  Min(S) \in S
  BY LeastMember DEF Min

\* A successor is a player, or nobody.
LEMMA SuccessorType ==
    ASSUME NEW s, NEW f \in Tables, NEW t
    PROVE  Successor(s, f, t) \in Players \cup {None}
<1>1. CASE Humans(s, t) # {}
  <2>1. Humans(s, t) \subseteq Nat
    BY TeamsAssumption DEF Humans, Players
  <2>2. Min(Humans(s, t)) \in Humans(s, t)
    BY <1>1, <2>1, MinFacts
  <2> QED
    BY <1>1, <2>2 DEF Successor, Humans
<1>2. CASE Humans(s, t) = {} /\ AIsIn(f, t) # {}
  <2>1. DOMAIN f \subseteq Ids /\ \A i \in DOMAIN f : f[i] \in Entry
    BY TableFacts
  <2>2. AIsIn(f, t) \subseteq Nat
    BY <2>1, ConstantTypes DEF AIsIn, Ids
  <2>3. Min(AIsIn(f, t)) \in AIsIn(f, t)
    BY <1>2, <2>2, MinFacts
  <2>4. f[Min(AIsIn(f, t))].host \in Players
    BY <2>1, <2>3, EntryFacts DEF AIsIn
  <2> QED
    BY <1>2, <2>4 DEF Successor
<1>3. CASE Humans(s, t) = {} /\ AIsIn(f, t) = {}
  BY <1>3 DEF Successor
<1> QED
  BY <1>1, <1>2, <1>3

-----------------------------------------------------------------------------
(* What a message makes of a copy                                          *)

\* The view of a copy
LEMMA ViewFacts ==
    ASSUME NEW d \in CopyType
    PROVE  /\ View(d) \in ViewType
           /\ d.spectator \in Spectators /\ d.leader \in Leaders /\ d.ais \in Tables
           /\ d.dead \subseteq Teams /\ d.creating \subseteq Teams /\ d.running \subseteq Ids
  BY DEF View, CopyType, ViewType

\* Spectators are players, and there are more and more.
LEMMA SpectatorFacts ==
    ASSUME NEW s \in Spectators, NEW t \in SUBSET Players
    PROVE  s \subseteq Players /\ s \cup t \in Spectators
  BY DEF Spectators

\* A copy with view v, and c and r besides
Joined(v, c, r) ==
    [spectator |-> v.spectator, leader |-> v.leader, ais |-> v.ais, dead |-> v.dead,
     creating |-> c, running |-> r]

\* A copy is its view and the rest.
LEMMA JoinedFacts ==
    ASSUME NEW e \in CopyType, NEW w,
           e.spectator = w.spectator, e.leader = w.leader, e.ais = w.ais, e.dead = w.dead
    PROVE  e = Joined(w, e.creating, e.running)
<1>1. e = Joined(e, e.creating, e.running)
  BY DEF CopyType, Joined
<1> QED
  BY <1>1 DEF Joined

\* What its client does with a message changes a copy's view as every client's.
LEMMA SeesFacts ==
    ASSUME NEW d \in CopyType, NEW m \in Messages, Applicable(View(d), m), NEW p \in Players
    PROVE  /\ Applied(View(d), m) \in ViewType
           /\ \E c \in SUBSET Teams, r \in SUBSET Ids :
                 Sees(d, m, p) = Joined(Applied(View(d), m), c, r)
<1> DEFINE v == View(d)
<1>1. /\ v \in ViewType /\ v.spectator = d.spectator /\ v.leader = d.leader
      /\ v.ais = d.ais /\ v.dead = d.dead
  BY ViewFacts DEF View
<1>2. /\ d.spectator \in Spectators /\ d.leader \in Leaders /\ d.ais \in Tables
      /\ d.dead \subseteq Teams /\ d.creating \subseteq Teams /\ d.running \subseteq Ids
      /\ d = Joined(d, d.creating, d.running)
  BY ViewFacts DEF CopyType, Joined
<1> HIDE DEF v
<1>3. CASE m.type = "giveaway"
  <2>1. m.player \in Players /\ m.from \in Teams
    BY <1>3, MessageFacts
  <2>2. Sees(d, m, p) = SeesGiveAway(d, m) /\ Applied(v, m) = SeesGiveAway(v, m)
    BY <1>3 DEF Sees, Applied
  <2>3. PICK s \in Spectators, l \in Leaders :
             /\ SeesGiveAway(d, m) = [d EXCEPT !.spectator = s, !.leader = l]
             /\ SeesGiveAway(v, m) = [v EXCEPT !.spectator = s, !.leader = l]
    <3> DEFINE own == m.from = TeamOf[m.player]
               s == IF own /\ Cardinality(Humans(d.spectator, m.from)) # 1
                    THEN d.spectator \cup {m.player} ELSE d.spectator
               l == [d.leader EXCEPT ![m.from] =
                        IF /\ own \/ Humans(d.spectator, m.from) = {}
                           /\ Controllers(d.spectator, d.ais, m.from) = 1
                        THEN None ELSE @]
    <3>1. s \in Spectators
      BY <1>2, <2>1, SpectatorFacts
    <3>2. l \in Leaders
      BY <1>2, <2>1 DEF Leaders
    <3>3. SeesGiveAway(d, m) = [d EXCEPT !.spectator = s, !.leader = l]
      BY DEF SeesGiveAway, CopyType
    <3>4. SeesGiveAway(v, m) = [v EXCEPT !.spectator = s, !.leader = l]
      BY <1>1 DEF SeesGiveAway, ViewType
    <3> HIDE DEF s, l
    <3> QED
      BY <3>1, <3>2, <3>3, <3>4
  <2>4. [v EXCEPT !.spectator = s, !.leader = l] \in ViewType
    BY <1>1 DEF ViewType
  <2>5. [d EXCEPT !.spectator = s, !.leader = l]
          = Joined([v EXCEPT !.spectator = s, !.leader = l], d.creating, d.running)
    <3> DEFINE e == [d EXCEPT !.spectator = s, !.leader = l]
           w == [v EXCEPT !.spectator = s, !.leader = l]
    <3>1. e \in CopyType
      BY <1>2, <2>3 DEF CopyType
    <3>2. /\ e.spectator = w.spectator /\ e.leader = w.leader /\ e.ais = w.ais /\ e.dead = w.dead
         /\ e.creating = d.creating /\ e.running = d.running
      BY <1>1 DEF CopyType, ViewType
    <3> HIDE DEF e, w
    <3> QED
      BY <3>1, <3>2, JoinedFacts DEF e, w
  <2> QED
    BY <1>2, <2>2, <2>3, <2>4, <2>5 DEF v
<1>4. CASE m.type = "resign"
  <2>1. m.player \in Players
    BY <1>4, MessageFacts
  <2>2. Sees(d, m, p) = SeesResign(d, m) /\ Applied(v, m) = SeesResign(v, m)
    BY <1>4 DEF Sees, Applied
  <2> DEFINE s == d.spectator \cup {m.player}
             l == [t \in Teams |-> IF d.leader[t] = m.player THEN Successor(s, d.ais, t)
                                   ELSE d.leader[t]]
  <2>3. s \in Spectators
    BY <1>2, <2>1, SpectatorFacts
  <2>4. l \in Leaders
    <3>1. \A t \in Teams : Successor(s, d.ais, t) \in Players \cup {None}
      BY <1>2, SuccessorType
    <3> HIDE DEF s
    <3> QED
      BY <1>2, <3>1 DEF Leaders
  <2>5. SeesResign(d, m) = [d EXCEPT !.spectator = s, !.leader = l]
    BY DEF SeesResign, CopyType
  <2>6. SeesResign(v, m) = [v EXCEPT !.spectator = s, !.leader = l]
    BY <1>1 DEF SeesResign, ViewType
  <2> HIDE DEF s, l
  <2>7. [v EXCEPT !.spectator = s, !.leader = l] \in ViewType
    BY <1>1, <2>3, <2>4 DEF ViewType
  <2>8. [d EXCEPT !.spectator = s, !.leader = l]
          = Joined([v EXCEPT !.spectator = s, !.leader = l], d.creating, d.running)
    <3> DEFINE e == [d EXCEPT !.spectator = s, !.leader = l]
           w == [v EXCEPT !.spectator = s, !.leader = l]
    <3>1. e \in CopyType
      BY <1>2, <2>3, <2>4 DEF CopyType
    <3>2. /\ e.spectator = w.spectator /\ e.leader = w.leader /\ e.ais = w.ais /\ e.dead = w.dead
         /\ e.creating = d.creating /\ e.running = d.running
      BY <1>1 DEF CopyType, ViewType
    <3> HIDE DEF e, w
    <3> QED
      BY <3>1, <3>2, JoinedFacts DEF e, w
  <2> QED
    BY <1>2, <2>2, <2>5, <2>6, <2>7, <2>8 DEF v
<1>5. CASE m.type = "created"
  <2>1. m.player \in Players /\ m.id \in Ids /\ m.team \in Teams
    BY <1>5, MessageFacts
  <2> DEFINE f == Added(d.ais, m, None)
             l == [d.leader EXCEPT ![m.team] = IF @ = None THEN m.player ELSE @]
             c == IF m.id \in DOMAIN d.ais THEN d.creating ELSE d.creating \ {m.team}
             r == IF m.player = p THEN d.running \cup {m.id} ELSE d.running
  <2>2. Sees(d, m, p) = SeesCreated(d, m, p)
    BY <1>5 DEF Sees
  <2>3. SeesCreated(d, m, p) = [d EXCEPT !.ais = f, !.creating = c, !.leader = l, !.running = r]
    BY DEF SeesCreated, CopyType, Added
  <2>4. Applied(v, m) = [v EXCEPT !.ais = f, !.leader = l]
    BY <1>1, <1>5 DEF Applied, ViewType
  <2>5. f \in Tables
    <3>1. AI(m.team, m.player) \in Entry
      BY <2>1, NewEntry
    <3> QED
      BY <1>2, <2>1, <3>1, TableChanges DEF Added
  <2>6. l \in Leaders /\ c \in SUBSET Teams /\ r \in SUBSET Ids
    BY <1>2, <2>1 DEF Leaders
  <2> HIDE DEF f, l, c, r
  <2>7. [v EXCEPT !.ais = f, !.leader = l] \in ViewType
    BY <1>1, <2>5, <2>6 DEF ViewType
  <2>8. [d EXCEPT !.ais = f, !.creating = c, !.leader = l, !.running = r]
          = Joined([v EXCEPT !.ais = f, !.leader = l], c, r)
    <3> DEFINE e == [d EXCEPT !.ais = f, !.creating = c, !.leader = l, !.running = r]
           w == [v EXCEPT !.ais = f, !.leader = l]
    <3>1. e \in CopyType
      BY <1>2, <2>5, <2>6 DEF CopyType
    <3>2. /\ e.spectator = w.spectator /\ e.leader = w.leader /\ e.ais = w.ais /\ e.dead = w.dead
         /\ e.creating = c /\ e.running = r
      BY <1>1 DEF CopyType, ViewType
    <3> HIDE DEF e, w
    <3> QED
      BY <3>1, <3>2, JoinedFacts DEF e, w
  <2> QED
    BY <2>2, <2>3, <2>4, <2>6, <2>7, <2>8 DEF v
<1>6. CASE m.type = "state"
  <2>1. m.id \in DOMAIN d.ais /\ m.id \in Ids /\ m.status \in Status
    BY <1>1, <1>6, MessageFacts DEF Applicable, v
  <2> DEFINE ai == d.ais[m.id]
             new == [d.ais EXCEPT ![m.id].status = m.status]
             rest == [j \in DOMAIN d.ais \ {m.id} |-> d.ais[j]]
             l == [d.leader EXCEPT ![ai.team] =
                      IF Controllers(d.spectator, d.ais, ai.team) = 1 THEN None ELSE @]
  <2>2. new \in Tables /\ rest \in Tables
    BY <1>2, <2>1, TableChanges
  <2>3. ai \in Entry /\ ai.team \in Teams
    BY <1>2, <2>1, TableFacts, EntryFacts
  <2>4. l \in Leaders
    BY <1>2, <2>3 DEF Leaders
  <2>5. Sees(d, m, p) = SeesState(d, m, p)
    BY <1>6 DEF Sees
  <2>6. CASE Removed(ai.status, m.status)
    <3>1. ~ (ai.host = p /\ m.status \in {"dieing", "reloading"})
      BY <2>6 DEF Removed
    <3>2. SeesState(d, m, p) = [d EXCEPT !.ais = rest, !.creating = @ \ {ai.team}, !.leader = l]
      BY <2>6, <3>1 DEF SeesState, CopyType
    <3>3. Applied(v, m) = [v EXCEPT !.ais = rest, !.leader = l]
      BY <1>1, <1>6, <2>6 DEF Applied, ViewType
    <3> HIDE DEF rest, l
    <3>4. [v EXCEPT !.ais = rest, !.leader = l] \in ViewType
      BY <1>1, <2>2, <2>4 DEF ViewType
    <3>5. [d EXCEPT !.ais = rest, !.creating = @ \ {ai.team}, !.leader = l]
            = Joined([v EXCEPT !.ais = rest, !.leader = l], d.creating \ {ai.team}, d.running)
      <4> DEFINE e == [d EXCEPT !.ais = rest, !.creating = @ \ {ai.team}, !.leader = l]
             w == [v EXCEPT !.ais = rest, !.leader = l]
      <4>1. e \in CopyType
        BY <1>2, <2>2, <2>4 DEF CopyType
      <4>2. /\ e.spectator = w.spectator /\ e.leader = w.leader /\ e.ais = w.ais /\ e.dead = w.dead
           /\ e.creating = d.creating \ {ai.team} /\ e.running = d.running
        BY <1>1 DEF CopyType, ViewType
      <4> HIDE DEF e, w
      <4> QED
        BY <4>1, <4>2, JoinedFacts DEF e, w
    <3>6. d.creating \ {ai.team} \in SUBSET Teams /\ d.running \in SUBSET Ids
      BY <1>2
    <3> QED
      BY <2>5, <3>2, <3>3, <3>4, <3>5, <3>6 DEF v
  <2>7. CASE ~ Removed(ai.status, m.status)
    <3>1. PICK r \in SUBSET Ids : SeesState(d, m, p) = [d EXCEPT !.ais = new, !.running = r]
      <4>1. CASE ai.host = p /\ m.status \in {"dieing", "reloading"}
        <5>1. SeesState(d, m, p) = [d EXCEPT !.ais = new, !.running = d.running \ {m.id}]
          BY <4>1 DEF SeesState, CopyType
        <5> QED
          BY <1>2, <5>1
      <4>2. CASE ~ (ai.host = p /\ m.status \in {"dieing", "reloading"})
        <5> DEFINE r == IF m.status = "dead" /\ ai.host = p
                        THEN d.running \cup {m.id} ELSE d.running
        <5>1. SeesState(d, m, p) = [d EXCEPT !.ais = new, !.running = r]
          BY <2>7, <4>2 DEF SeesState, CopyType
        <5> QED
          BY <1>2, <2>1, <5>1
      <4> QED
        BY <4>1, <4>2
    <3>2. Applied(v, m) = [v EXCEPT !.ais = new]
      BY <1>1, <1>6, <2>7 DEF Applied, ViewType
    <3> HIDE DEF new
    <3>3. [v EXCEPT !.ais = new] \in ViewType
      BY <1>1, <2>2 DEF ViewType
    <3>4. [d EXCEPT !.ais = new, !.running = r] = Joined([v EXCEPT !.ais = new], d.creating, r)
      <4> DEFINE e == [d EXCEPT !.ais = new, !.running = r]
             w == [v EXCEPT !.ais = new]
      <4>1. e \in CopyType
        BY <1>2, <2>2 DEF CopyType
      <4>2. /\ e.spectator = w.spectator /\ e.leader = w.leader /\ e.ais = w.ais /\ e.dead = w.dead
           /\ e.creating = d.creating /\ e.running = r
        BY <1>1 DEF CopyType, ViewType
      <4> HIDE DEF e, w
      <4> QED
        BY <4>1, <4>2, JoinedFacts DEF e, w
    <3> QED
      BY <1>2, <2>5, <3>1, <3>2, <3>3, <3>4 DEF v
  <2> QED
    BY <2>6, <2>7
<1>7. CASE m.type = "died"
  <2>1. m.team \in Teams
    BY <1>7, MessageFacts
  <2>2. Sees(d, m, p) = SeesDied(d, m) /\ Applied(v, m) = SeesDied(v, m)
    BY <1>7 DEF Sees, Applied
  <2>3. CASE m.team \in d.dead
    <3>1. SeesDied(d, m) = d /\ SeesDied(v, m) = v
      BY <1>1, <2>3 DEF SeesDied
    <3>2. d = Joined(v, d.creating, d.running)
      BY <1>1, <1>2 DEF Joined
    <3> QED
      BY <1>1, <1>2, <2>2, <3>1, <3>2 DEF v
  <2>4. CASE m.team \notin d.dead
    <3> DEFINE s == d.spectator \cup Humans(d.spectator, m.team)
               k == d.dead \cup {m.team}
    <3>1. SeesDied(d, m) = [d EXCEPT !.dead = k, !.spectator = s]
      BY <2>4 DEF SeesDied, CopyType
    <3>2. SeesDied(v, m) = [v EXCEPT !.dead = k, !.spectator = s]
      BY <1>1, <2>4 DEF SeesDied, ViewType
    <3>3. s \in Spectators
      <4>1. Humans(d.spectator, m.team) \in SUBSET Players
        BY DEF Humans
      <4> QED
        BY <1>2, <4>1, SpectatorFacts
    <3>4. k \subseteq Teams
      BY <1>2, <2>1
    <3> HIDE DEF s, k
    <3>5. [v EXCEPT !.dead = k, !.spectator = s] \in ViewType
      BY <1>1, <3>3, <3>4 DEF ViewType
    <3>6. [d EXCEPT !.dead = k, !.spectator = s]
            = Joined([v EXCEPT !.dead = k, !.spectator = s], d.creating, d.running)
      <4> DEFINE e == [d EXCEPT !.dead = k, !.spectator = s]
             w == [v EXCEPT !.dead = k, !.spectator = s]
      <4>1. e \in CopyType
        BY <1>2, <3>3, <3>4 DEF CopyType
      <4>2. /\ e.spectator = w.spectator /\ e.leader = w.leader /\ e.ais = w.ais /\ e.dead = w.dead
           /\ e.creating = d.creating /\ e.running = d.running
        BY <1>1 DEF CopyType, ViewType
      <4> HIDE DEF e, w
      <4> QED
        BY <4>1, <4>2, JoinedFacts DEF e, w
    <3> QED
      BY <1>2, <2>2, <3>1, <3>2, <3>5, <3>6 DEF v
  <2> QED
    BY <2>3, <2>4
<1> QED
  BY <1>3, <1>4, <1>5, <1>6, <1>7, MessageFacts

\* What the copies of clients that are in one view have in common
LEMMA ViewOfJoined ==
    ASSUME NEW w \in ViewType, NEW c, NEW r
    PROVE  View(Joined(w, c, r)) = w
  BY DEF View, Joined, ViewType

\* What a message makes of a view is a view.
LEMMA AppliedType ==
    ASSUME NEW v \in ViewType, NEW m \in Messages, Applicable(v, m)
    PROVE  Applied(v, m) \in ViewType
<1> DEFINE d == Joined(v, {}, {})
<1>1. d \in CopyType
  BY DEF Joined, CopyType, ViewType
<1>2. View(d) = v
  BY ViewOfJoined
<1>3. Host \in Players
  BY ConstantTypes
<1> HIDE DEF d
<1> QED
  BY <1>1, <1>2, <1>3, SeesFacts

\* Reading a message takes a client to the view that comes of it.
LEMMA ViewOfSeen ==
    ASSUME NEW d \in CopyType, NEW m \in Messages, Applicable(View(d), m), NEW p \in Players
    PROVE  /\ Sees(d, m, p) \in CopyType
           /\ View(Sees(d, m, p)) = Applied(View(d), m)
<1>1. Applied(View(d), m) \in ViewType
  BY SeesFacts
<1>2. PICK c \in SUBSET Teams, r \in SUBSET Ids : Sees(d, m, p) = Joined(Applied(View(d), m), c, r)
  BY SeesFacts
<1> DEFINE w == Applied(View(d), m)
<1> HIDE DEF w
<1>3. w \in ViewType /\ Sees(d, m, p) = Joined(w, c, r)
  BY <1>1, <1>2 DEF w
<1>4. Joined(w, c, r) \in CopyType
  BY <1>3 DEF Joined, CopyType, ViewType
<1> QED
  BY <1>3, <1>4, ViewOfJoined DEF w

-----------------------------------------------------------------------------
(* The history                                                             *)

\* A broadcast extends it.
LEMMA ReplayExtended ==
    ASSUME NEW log, NEW views, Replay(log, views),
           NEW m \in Messages, Applicable(views[Len(log)], m)
    PROVE  \E w : /\ Replay(Append(log, m), w)
                  /\ \A n \in 0..Len(log) : w[n] = views[n]
                  /\ w[Len(log) + 1] = Applied(views[Len(log)], m)
<1> DEFINE N == Len(log)
           w == [n \in 0..(N + 1) |-> IF n = N + 1 THEN Applied(views[N], m) ELSE views[n]]
           long == Append(log, m)
<1>1. N \in Nat /\ log \in Seq(Messages) /\ views \in [0..N -> ViewType]
  BY DEF Replay
<1>2. Applied(views[N], m) \in ViewType
  BY <1>1, AppliedType
<1>3. w \in [0..(N + 1) -> ViewType]
  BY <1>1, <1>2
<1>4. /\ \A n \in 0..N : w[n] = views[n]
      /\ w[N + 1] = Applied(views[N], m)
  BY <1>1
<1>5. /\ long \in Seq(Messages) /\ Len(long) = N + 1
      /\ long[N + 1] = m /\ \A n \in 1..N : long[n] = log[n]
  BY <1>1
<1> HIDE DEF w, long
<1>6. ASSUME NEW n \in 1..Len(long)
      PROVE  Applicable(w[n - 1], long[n]) /\ w[n] = Applied(w[n - 1], long[n])
  <2>1. CASE n = N + 1
    BY <1>1, <1>4, <1>5, <2>1
  <2>2. CASE n # N + 1
    <3>1. n \in 1..N /\ n - 1 \in 0..N /\ n \in 0..N
      BY <1>1, <1>5, <2>2
    <3>2. Applicable(views[n - 1], log[n]) /\ views[n] = Applied(views[n - 1], log[n])
      BY <3>1 DEF Replay
    <3> QED
      BY <1>4, <1>5, <3>1, <3>2
  <2> QED
    BY <2>1, <2>2
<1>7. Replay(long, w)
  BY <1>3, <1>5, <1>6 DEF Replay
<1> QED
  BY <1>4, <1>7 DEF long

\* What comes to a client is about an AI that it has, if it is about an AI.
LEMMA NextApplicable ==
    ASSUME Shapes, NEW log, NEW views, OneHistory(log, views), NEW p \in Players, down[p] # <<>>
    PROVE  /\ Read(log, p) + 1 \in 1..Len(log)
           /\ Head(down[p]) = log[Read(log, p) + 1] /\ Head(down[p]) \in Messages
           /\ Applicable(View(seen[p]), Head(down[p]))
           /\ views[Read(log, p) + 1] = Applied(View(seen[p]), Head(down[p]))
<1>1. /\ Replay(log, views) /\ Len(log) \in Nat
      /\ Follows(log, views, p)
  BY DEF OneHistory, Replay
<1>2. /\ down[p] \in Seq(Messages) /\ Len(down[p]) \in Nat \ {0}
      /\ Head(down[p]) = down[p][1] /\ Head(down[p]) \in Messages
  BY DEF Shapes
<1> DEFINE n == Read(log, p) + 1
<1>3. n \in 1..Len(log) /\ n - 1 = Read(log, p)
  BY <1>1, <1>2 DEF Read, Follows
<1>4. Head(down[p]) = log[n]
  BY <1>1, <1>2 DEF Follows
<1>5. Applicable(views[n - 1], log[n]) /\ views[n] = Applied(views[n - 1], log[n])
  BY <1>1, <1>3 DEF Replay
<1> QED
  BY <1>1, <1>2, <1>3, <1>4, <1>5 DEF Follows

-----------------------------------------------------------------------------
(* Sequences of the model                                                  *)

\* The order in which the AIs of a set are reported contains each.
LEMMA SetToSeqType ==
    ASSUME NEW S, IsFiniteSet(S)
    PROVE  SetToSeq(S) \in Seq(S)
<1>1. Cardinality(S) \in Nat /\ ExistsBijection(1..Cardinality(S), S)
  BY FS_CardinalityType
<1>2. PICK f \in [1..Cardinality(S) -> S] : IsInjective(f)
  BY <1>1 DEF ExistsBijection, Bijection, Injection, IsInjective
<1>3. SetToSeq(S) \in [1..Cardinality(S) -> S]
  BY <1>2 DEF SetToSeq
<1> QED
  BY <1>1, <1>3

\* The ids that are in use are finitely many.
LEMMA TablesFinite ==
    ASSUME NEW f \in Tables, NEW I \in SUBSET (DOMAIN f)
    PROVE  IsFiniteSet(I)
<1>1. I \subseteq Ids
  BY TableFacts
<1>2. IsFiniteSet(Ids)
  BY ConstantTypes, FS_Interval DEF Ids
<1> QED
  BY <1>1, <1>2, FS_Subset

\* What is said about states, and asked for, are messages.
LEMMA MessageTypes ==
    /\ \A p \in Players, i \in Ids, s \in Status : StateChanged(p, i, s) \in Messages
    /\ \A p \in Players, i \in Ids, t \in Teams : Creates(p, i, t) \in Messages
    /\ \A p \in Players, t, to \in Teams : GiveAway(p, t, to) \in Messages
    /\ \A p \in Players : Resigns(p) \in Messages
    /\ \A t \in Teams : Died(t) \in Messages
  BY DEF StateChanged, Creates, GiveAway, Resigns, Died, Messages

\* A client answers with messages.
LEMMA AnswersType ==
    ASSUME Shapes, NEW p \in Players, NEW m \in Messages
    PROVE  Answers(seen[p], m, p) \in Seq(Messages)
<1>1. CASE m.type = "died" /\ m.team \notin seen[p].dead
  <2> DEFINE S == Local(p, m.team)
             R == SetToSeq(S)
             K == [k \in DOMAIN R |-> StateChanged(p, R[k], "dieing")]
  <2>1. seen[p].ais \in Tables
    BY ViewFacts DEF Shapes
  <2>2. S \in SUBSET DOMAIN seen[p].ais /\ S \subseteq Ids
    BY <2>1, TableFacts DEF Local, AIsIn
  <2>3. R \in Seq(S)
    BY <2>1, <2>2, TablesFinite, SetToSeqType
  <2> HIDE DEF S, R
  <2>4. Len(R) \in Nat /\ DOMAIN R = 1..Len(R) /\ \A k \in 1..Len(R) : R[k] \in Ids
    BY <2>2, <2>3
  <2>5. \A k \in 1..Len(R) : StateChanged(p, R[k], "dieing") \in Messages
    BY <2>4, MessageTypes DEF Status
  <2>6. K \in Seq(Messages)
    BY <2>4, <2>5
  <2>7. Answers(seen[p], m, p) = <<m>> \o K
    BY <1>1 DEF Answers, S, R
  <2> HIDE DEF K
  <2> QED
    BY <2>6, <2>7
<1>2. CASE m.type = "created" /\ m.player = p
  <2>1. StateChanged(p, m.id, "alive") \in Messages
    BY <1>2, MessageFacts, MessageTypes DEF Status
  <2> QED
    BY <1>2, <2>1 DEF Answers
<1>3. CASE m.type = "state"
  <2>1. /\ StateChanged(p, m.id, "alive") \in Messages
        /\ StateChanged(p, m.id, "dead") \in Messages
    BY <1>3, MessageFacts, MessageTypes DEF Status
  <2>2. \/ Answers(seen[p], m, p) = <<StateChanged(p, m.id, "alive")>>
        \/ Answers(seen[p], m, p) = <<StateChanged(p, m.id, "dead")>>
        \/ Answers(seen[p], m, p) = <<>>
    BY <1>3 DEF Answers
  <2>3. /\ <<StateChanged(p, m.id, "alive")>> \in Seq(Messages)
        /\ <<StateChanged(p, m.id, "dead")>> \in Seq(Messages)
        /\ <<>> \in Seq(Messages)
    BY <2>1
  <2> DEFINE a == Answers(seen[p], m, p)
  <2> HIDE DEF a
  <2> QED
    BY <2>2, <2>3 DEF a
<1>4. CASE /\ ~ (m.type = "died" /\ m.team \notin seen[p].dead)
           /\ ~ (m.type = "created" /\ m.player = p)
           /\ m.type # "state"
  <2>1. Answers(seen[p], m, p) = <<>>
    BY <1>4 DEF Answers
  <2> QED
    BY <2>1
<1> QED
  BY <1>1, <1>2, <1>3, <1>4

-----------------------------------------------------------------------------
(* The AIs in a view, and on the server                                    *)

\* What a message makes of the AIs
LEMMA AIsApplied ==
    ASSUME NEW v \in ViewType, NEW m \in Messages
    PROVE  /\ m.type \in {"giveaway", "resign", "died"} => Applied(v, m).ais = v.ais
           /\ m.type = "created" => Applied(v, m).ais = Added(v.ais, m, None)
           /\ m.type = "state" =>
                 Applied(v, m).ais =
                     IF Removed(v.ais[m.id].status, m.status)
                     THEN [j \in DOMAIN v.ais \ {m.id} |-> v.ais[j]]
                     ELSE [v.ais EXCEPT ![m.id].status = m.status]
<1>1. ASSUME m.type = "giveaway" PROVE Applied(v, m).ais = v.ais
  BY <1>1 DEF Applied, SeesGiveAway, ViewType
<1>2. ASSUME m.type = "resign" PROVE Applied(v, m).ais = v.ais
  BY <1>2 DEF Applied, SeesResign, ViewType
<1>3. ASSUME m.type = "died" PROVE Applied(v, m).ais = v.ais
  BY <1>3 DEF Applied, SeesDied, ViewType
<1>4. ASSUME m.type = "created" PROVE Applied(v, m).ais = Added(v.ais, m, None)
  BY <1>4 DEF Applied, ViewType
<1>5. ASSUME m.type = "state", Removed(v.ais[m.id].status, m.status)
      PROVE  Applied(v, m).ais = [j \in DOMAIN v.ais \ {m.id} |-> v.ais[j]]
  BY <1>5 DEF Applied, ViewType
<1>6. ASSUME m.type = "state", ~ Removed(v.ais[m.id].status, m.status)
      PROVE  Applied(v, m).ais = [v.ais EXCEPT ![m.id].status = m.status]
  BY <1>6 DEF Applied, ViewType
<1> QED
  BY <1>1, <1>2, <1>3, <1>4, <1>5, <1>6

\* The request that is processed
LEMMA TakesFacts ==
    ASSUME Shapes, NEW p \in Players, NEW type, Takes(p, type)
    PROVE  /\ Head(up[p]) \in Messages /\ Head(up[p]).type = type
           /\ up' \in [Players -> Seq(Messages)] /\ seen' = seen
<1>1. up \in [Players -> Seq(Messages)] /\ up[p] \in Seq(Messages) /\ up[p] # <<>>
  BY DEF Shapes, Takes
<1>2. Head(up[p]) \in Messages /\ Tail(up[p]) \in Seq(Messages)
  BY <1>1
<1> QED
  BY <1>1, <1>2 DEF Takes

\* What the server broadcasts are messages.
LEMMA BroadcastType ==
    ASSUME Shapes, NEW m \in Messages, Broadcast(m)
    PROVE  down' \in [Players -> Seq(Messages)]
  BY DEF Shapes, Broadcast

\* An AI that is gone
LEMMA ReleaseFacts ==
    ASSUME Shapes, NEW i \in Ids, Release(i)
    PROVE  /\ skirmishAIs' \in Tables /\ freeSkirmishAIs' \in Seq(Ids)
           /\ DOMAIN skirmishAIs' = DOMAIN skirmishAIs \ {i}
           /\ \A j \in DOMAIN skirmishAIs' : skirmishAIs'[j] = skirmishAIs[j]
<1>1. skirmishAIs \in Tables /\ freeSkirmishAIs \in Seq(Ids)
  BY DEF Shapes
<1>2. skirmishAIs' \in Tables
  BY <1>1, TableChanges DEF Release
<1>3. freeSkirmishAIs' \in Seq(Ids)
  BY <1>1 DEF Release
<1> QED
  BY <1>2, <1>3 DEF Release

\* A team without a controller
LEMMA AbandonedType ==
    ASSUME Shapes, NEW t, Abandoned(t)
    PROVE  leader' \in Leaders /\ active' \subseteq Teams
  BY DEF Shapes, Abandoned, Leaders

-----------------------------------------------------------------------------
(* What the hosts of AIs do and report                                     *)

\* What a client does with its AIs
LEMMA RunningFacts ==
    ASSUME NEW d \in CopyType, NEW m \in Messages, NEW p \in Players, NEW i
    PROVE  /\ i \in d.running /\ ~ Destroys(View(d), m, p, i) => i \in Sees(d, m, p).running
           /\ Starts(View(d), m, p, i) => i \in Sees(d, m, p).running
<1>1. View(d).ais = d.ais /\ d.running \subseteq Ids
  BY ViewFacts DEF View
<1>2. CASE m.type \in {"giveaway", "resign", "died"}
  <2>1. Sees(d, m, p).running = d.running
    BY <1>2 DEF Sees, SeesGiveAway, SeesResign, SeesDied, CopyType
  <2> QED
    BY <1>2, <2>1 DEF Starts
<1>3. CASE m.type = "created"
  <2>1. Sees(d, m, p).running = IF m.player = p THEN d.running \cup {m.id} ELSE d.running
    BY <1>3 DEF Sees, SeesCreated, CopyType
  <2> QED
    BY <1>3, <2>1 DEF Starts
<1>4. CASE m.type = "state"
  <2> DEFINE ai == d.ais[m.id]
  <2>1. Sees(d, m, p) = SeesState(d, m, p)
    BY <1>4 DEF Sees
  <2>2. CASE ai.host = p /\ m.status \in {"dieing", "reloading"}
    <3>1. Sees(d, m, p).running = d.running \ {m.id}
      BY <2>1, <2>2 DEF SeesState, CopyType
    <3> QED
      BY <1>1, <1>4, <2>2, <3>1 DEF Starts, Destroys
  <2>3. CASE ~ (ai.host = p /\ m.status \in {"dieing", "reloading"}) /\ Removed(ai.status, m.status)
    <3>1. Sees(d, m, p).running = d.running
      BY <2>1, <2>3 DEF SeesState, CopyType
    <3> QED
      BY <1>1, <1>4, <2>3, <3>1 DEF Starts, Removed
  <2>4. CASE ~ (ai.host = p /\ m.status \in {"dieing", "reloading"}) /\ ~ Removed(ai.status, m.status)
    <3>1. Sees(d, m, p).running
            = IF m.status = "dead" /\ ai.host = p THEN d.running \cup {m.id} ELSE d.running
      BY <2>1, <2>4 DEF SeesState, CopyType
    <3> QED
      BY <1>1, <1>4, <2>4, <3>1 DEF Starts
  <2> QED
    BY <2>2, <2>3, <2>4
<1> QED
  BY <1>2, <1>3, <1>4, MessageFacts

\* What a client answers when it does
LEMMA AnswersFacts ==
    ASSUME NEW d, NEW m, NEW p, NEW i
    PROVE  /\ Destroys(View(d), m, p, i) => Answers(d, m, p) = <<StateChanged(p, i, "dead")>>
           /\ Starts(View(d), m, p, i) => Answers(d, m, p) = <<StateChanged(p, i, "alive")>>
<1>1. View(d).ais = d.ais
  BY DEF View
<1>2. ASSUME Destroys(View(d), m, p, i) PROVE Answers(d, m, p) = <<StateChanged(p, i, "dead")>>
  <2>1. m.type = "state" /\ m.id = i /\ d.ais[m.id].host = p /\ m.status \in {"dieing", "reloading"}
    BY <1>1, <1>2 DEF Destroys
  <2> QED
    BY <2>1 DEF Answers
<1>3. ASSUME Starts(View(d), m, p, i) PROVE Answers(d, m, p) = <<StateChanged(p, i, "alive")>>
  <2>1. CASE m.type = "created" /\ m.id = i /\ m.player = p
    BY <2>1 DEF Answers
  <2>2. CASE /\ m.type = "state" /\ m.id = i /\ m.status = "dead"
             /\ d.ais[i].host = p /\ d.ais[i].status = "reloading"
    BY <2>2 DEF Answers
  <2> QED
    BY <1>1, <1>3, <2>1, <2>2 DEF Starts
<1> QED
  BY <1>2, <1>3

\* Reading a message, the host does what it was to do.
LEMMA ObeyedWhenRead ==
    ASSUME Shapes, NEW log, NEW views, OneHistory(log, views), Obeyed(log, views),
           NEW p \in Players, ClientReadNet(p), Shapes'
    PROVE  Obeyed(log, views)'
<1>1. /\ seen \in [Players -> CopyType] /\ up \in [Players -> Seq(Messages)] /\ down[p] # <<>>
      /\ down \in [Players -> Seq(Messages)] /\ skirmishAIs \in Tables /\ skirmishAIs' = skirmishAIs
  BY DEF Shapes, ClientReadNet, server
<1>2. PICK m \in Messages : m = Head(down[p])
  BY <1>1, NextApplicable
<1> DEFINE R == Read(log, p)
           N == Len(log)
<1>3. /\ Applicable(View(seen[p]), m) /\ R + 1 \in 1..N /\ m = log[R + 1]
      /\ View(seen[p]) = views[R] /\ R \in Nat /\ N \in Nat
  <2>1. Follows(log, views, p) /\ Len(log) \in Nat
    BY DEF OneHistory, Replay
  <2>2. R \in Int
    BY <1>1, <2>1 DEF Read
  <2> QED
    BY <1>1, <1>2, <2>1, <2>2, NextApplicable DEF Follows
<1>4. /\ seen' = [seen EXCEPT ![p] = Sees(seen[p], m, p)]
      /\ down' = [down EXCEPT ![p] = Tail(@)]
      /\ up' = [up EXCEPT ![p] = @ \o Answers(seen[p], m, p)]
  BY <1>2 DEF ClientReadNet
<1>5. Answers(seen[p], m, p) \in Seq(Messages)
  BY AnswersType
<1>6. ASSUME NEW h \in Players, NEW i, NEW s, Said(h, i, s)
      PROVE  Said(h, i, s)'
  <2>1. PICK k \in DOMAIN up[h] : up[h][k] = StateChanged(h, i, s)
    BY <1>6 DEF Said
  <2>2. CASE h = p
    <3> DEFINE a == Answers(seen[p], m, p)
    <3>1. up[p] \in Seq(Messages) /\ up'[p] = up[p] \o a /\ a \in Seq(Messages)
      BY <1>1, <1>4, <1>5
    <3> HIDE DEF a
    <3>2. k \in DOMAIN up'[p] /\ up'[p][k] = up[p][k]
      BY <2>1, <2>2, <3>1
    <3> QED
      BY <2>1, <2>2, <3>2 DEF Said
  <2>3. CASE h # p
    <3>1. up'[h] = up[h]
      BY <1>1, <1>4, <2>3
    <3> QED
      BY <2>1, <3>1 DEF Said
  <2> QED
    BY <2>2, <2>3
<1>7. ASSUME NEW i, NEW s, Answers(seen[p], m, p) = <<StateChanged(p, i, s)>>
      PROVE  Said(p, i, s)'
  <2>1. up[p] \in Seq(Messages) /\ up'[p] = up[p] \o <<StateChanged(p, i, s)>>
    BY <1>1, <1>4, <1>7
  <2>2. Len(up[p]) + 1 \in DOMAIN up'[p] /\ up'[p][Len(up[p]) + 1] = StateChanged(p, i, s)
    BY <2>1
  <2> QED
    BY <2>2 DEF Said
<1>8. ASSUME NEW h \in Players, h # p
      PROVE  Unread(log, h)' = Unread(log, h) /\ seen'[h] = seen[h]
  <2>1. down'[h] = down[h]
    BY <1>1, <1>4, <1>8
  <2> QED
    BY <1>1, <1>4, <1>8, <2>1 DEF Unread, Read
<1>9. /\ Unread(log, p) = Unread(log, p)' \cup {R + 1} /\ Unread(log, p)' = (R + 2)..N
  <2>1. Len(down'[p]) = Len(down[p]) - 1 /\ Len(down[p]) \in Nat
    BY <1>1, <1>4
  <2>2. Read(log, p)' = R + 1
    BY <1>3, <2>1 DEF Read
  <2> DEFINE q == Read(log, p)'
  <2>3. Unread(log, p)' = (q + 1)..N
    BY DEF Unread
  <2> HIDE DEF q
  <2>4. Unread(log, p)' = (R + 2)..N
    BY <1>3, <2>2, <2>3 DEF q
  <2>5. Unread(log, p) = (R + 1)..N
    BY DEF Unread
  <2> HIDE DEF R, N
  <2> QED
    BY <1>3, <2>4, <2>5
<1> HIDE DEF R, N
<1>10. R + 1 - 1 = R
  BY <1>3
<1> DEFINE D(k, h, i) == Destroys(views[k - 1], log[k], h, i)
           S(k, h, i) == Starts(views[k - 1], log[k], h, i)
<1>11. ASSUME NEW i
       PROVE  /\ i \in seen[p].running /\ ~ D(R + 1, p, i) => i \in seen'[p].running
              /\ S(R + 1, p, i) => i \in seen'[p].running
              /\ D(R + 1, p, i) => Said(p, i, "dead")'
              /\ S(R + 1, p, i) => Said(p, i, "alive")'
  <2>1. D(R + 1, p, i) <=> Destroys(View(seen[p]), m, p, i)
    BY <1>3, <1>10
  <2>2. S(R + 1, p, i) <=> Starts(View(seen[p]), m, p, i)
    BY <1>3, <1>10
  <2>3. seen[p] \in CopyType /\ seen'[p] = Sees(seen[p], m, p)
    BY <1>1, <1>4
  <2> QED
    BY <1>7, <2>1, <2>2, <2>3, RunningFacts, AnswersFacts
<1>12. ASSUME NEW h \in Players, NEW i, WillRun(log, views, h, i)
       PROVE  WillRun(log, views, h, i)'
  <2>1. CASE h # p
    BY <1>8, <1>12, <2>1 DEF WillRun
  <2>2. CASE h = p
    <3>1. CASE i \in seen[p].running /\ \A k \in Unread(log, p) : ~ D(k, p, i)
      <4>1. i \in seen'[p].running /\ \A k \in Unread(log, p)' : ~ D(k, p, i)
        BY <1>9, <1>11, <3>1
      <4> QED
        BY <2>2, <4>1 DEF WillRun
    <3>2. ASSUME NEW k \in Unread(log, p), S(k, p, i), \A n \in (k + 1)..N : ~ D(n, p, i)
          PROVE  WillRun(log, views, p, i)'
      <4>1. CASE k = R + 1
        <5>1. i \in seen'[p].running
          BY <1>11, <3>2, <4>1
        <5>2. \A n \in Unread(log, p)' : n \in (k + 1)..N
          BY <1>3, <1>9, <4>1
        <5> QED
          BY <3>2, <5>1, <5>2 DEF WillRun
      <4>2. CASE k \in Unread(log, p)'
        BY <3>2, <4>2 DEF WillRun, N
      <4> QED
        BY <1>9, <4>1, <4>2
    <3> QED
      BY <1>12, <2>2, <3>1, <3>2 DEF WillRun, N
  <2> QED
    BY <2>1, <2>2
<1>13. ASSUME NEW h \in Players, NEW i
       PROVE  /\ WillSayDead(log, views, h, i) => WillSayDead(log, views, h, i)'
              /\ WillSayAlive(log, views, h, i) => WillSayAlive(log, views, h, i)'
  <2>1. CASE h # p
    BY <1>6, <1>8, <2>1 DEF WillSayDead, WillSayAlive
  <2>2. CASE h = p
    BY <1>6, <1>9, <1>11, <2>2 DEF WillSayDead, WillSayAlive
  <2> QED
    BY <2>1, <2>2
<1>14. ASSUME NEW i \in DOMAIN skirmishAIs
       PROVE  Obeys(log, views, i)'
  <2>1. skirmishAIs[i].host \in Players
    BY <1>1, <1>14, TableFacts, EntryFacts
  <2>2. Obeys(log, views, i)
    BY <1>14 DEF Obeyed
  <2> QED
    BY <1>1, <1>12, <1>13, <2>1, <2>2 DEF Obeys
<1> QED
  BY <1>1, <1>14 DEF Obeyed

\* A step that does not change the history
LEMMA ObeyedKept ==
    ASSUME Shapes, NEW log, NEW views, Obeyed(log, views),
           down' = down, skirmishAIs' = skirmishAIs, ReportsKept,
           \A p \in Players : seen'[p].running = seen[p].running
    PROVE  Obeyed(log, views)'
<1>1. ASSUME NEW i \in DOMAIN skirmishAIs
      PROVE  Obeys(log, views, i)'
  <2> DEFINE h == skirmishAIs[i].host
  <2>1. h \in Players /\ h' = h /\ skirmishAIs'[i].status = skirmishAIs[i].status
    BY TableFacts, EntryFacts DEF Shapes
  <2>2. PICK p \in Players : p = h
    BY <2>1
  <2>3. StillSaid(p, i, "dead") /\ StillSaid(p, i, "alive")
    BY <2>2 DEF ReportsKept
  <2>4. Unread(log, p)' = Unread(log, p)
    BY DEF Unread, Read
  <2>5. WillRun(log, views, p, i) => WillRun(log, views, p, i)'
    BY <2>4 DEF WillRun
  <2>6. /\ WillSayDead(log, views, p, i) => WillSayDead(log, views, p, i)'
        /\ WillSayAlive(log, views, p, i) => WillSayAlive(log, views, p, i)'
    BY <2>3, <2>4 DEF WillSayDead, WillSayAlive, StillSaid
  <2>7. Obeys(log, views, i)
    BY DEF Obeyed
  <2> QED
    BY <2>1, <2>2, <2>5, <2>6, <2>7 DEF Obeys
<1> QED
  BY <1>1 DEF Obeyed

\* A broadcast is the last that its hosts have to read.
LEMMA UnreadExtended ==
    ASSUME Shapes, NEW log, NEW views, OneHistory(log, views), NEW m \in Messages, Broadcast(m),
           NEW w, \A n \in 0..Len(log) : w[n] = views[n], NEW h \in Players
    PROVE  /\ Len(Append(log, m)) = Len(log) + 1 /\ Len(log) \in Nat
           /\ Append(log, m)[Len(log) + 1] = m /\ w[Len(log)] = views[Len(log)]
           /\ Unread(Append(log, m), h)' = Unread(log, h) \cup {Len(log) + 1}
           /\ \A k \in Unread(log, h) : k \in 1..Len(log)
           /\ \A k \in 1..Len(log) : Append(log, m)[k] = log[k] /\ w[k - 1] = views[k - 1]
<1> DEFINE long == Append(log, m)
           N == Len(log)
           R == Read(log, h)
<1>1. /\ log \in Seq(Messages) /\ N \in Nat /\ Follows(log, views, h)
      /\ down[h] \in Seq(Messages) /\ down'[h] = Append(down[h], m)
  BY DEF OneHistory, Replay, Shapes, Broadcast
<1>2. Len(long) = N + 1 /\ long[N + 1] = m /\ \A k \in 1..N : long[k] = log[k]
  BY <1>1
<1>3. Len(down'[h]) = Len(down[h]) + 1 /\ Len(down[h]) \in Nat
  BY <1>1
<1>4. R \in 0..N /\ Read(long, h)' = R
  BY <1>1, <1>2, <1>3 DEF Read, Follows
<1> DEFINE q == Read(long, h)'
<1>5. Unread(long, h)' = (q + 1)..Len(long)
  BY DEF Unread
<1>6. Unread(log, h) = (R + 1)..N
  BY DEF Unread
<1> HIDE DEF long, N, R, q
<1>7. q = R
  BY <1>4 DEF q
<1>8. Unread(long, h)' = Unread(log, h) \cup {N + 1} /\ \A k \in Unread(log, h) : k \in 1..N
  BY <1>1, <1>2, <1>4, <1>5, <1>6, <1>7
<1>9. \A k \in 1..N : w[k - 1] = views[k - 1]
  BY <1>1 DEF N
<1>10. w[N] = views[N]
  BY <1>1 DEF N
<1> QED
  BY <1>1, <1>2, <1>8, <1>9, <1>10 DEF long, N

\* What a broadcast adds to what a host will do and report
LEMMA BroadcastHeard ==
    ASSUME Shapes, NEW log, NEW views, OneHistory(log, views), NEW m \in Messages, Broadcast(m),
           NEW w, \A n \in 0..Len(log) : w[n] = views[n], NEW h \in Players, NEW i, seen' = seen
    PROVE  LET v == views[Len(log)] IN
           /\ \/ WillRun(log, views, h, i) /\ ~ Destroys(v, m, h, i)
              \/ Starts(v, m, h, i)
              => WillRun(Append(log, m), w, h, i)'
           /\ \/ WillSayDead(log, views, h, i) /\ StillSaid(h, i, "dead")
              \/ Destroys(v, m, h, i)
              => WillSayDead(Append(log, m), w, h, i)'
           /\ \/ WillSayAlive(log, views, h, i) /\ StillSaid(h, i, "alive")
              \/ Starts(v, m, h, i)
              => WillSayAlive(Append(log, m), w, h, i)'
<1> DEFINE long == Append(log, m)
           N == Len(log)
           v == views[N]
           D(k) == Destroys(views[k - 1], log[k], h, i)
           S(k) == Starts(views[k - 1], log[k], h, i)
           Dw(k) == Destroys(w[k - 1], long[k], h, i)
           Sw(k) == Starts(w[k - 1], long[k], h, i)
           U == Unread(log, h)
           V == Unread(long, h)'
<1>1. /\ Len(long) = N + 1 /\ N \in Nat /\ long[N + 1] = m /\ w[N] = v
      /\ V = U \cup {N + 1} /\ \A k \in U : k \in 1..N
      /\ \A k \in 1..N : long[k] = log[k] /\ w[k - 1] = views[k - 1]
  BY UnreadExtended
<1>2. \A k \in 1..N : Dw(k) = D(k) /\ Sw(k) = S(k)
  BY <1>1
<1>3. N + 1 - 1 = N
  BY <1>1
<1>4. /\ Dw(N + 1) = Destroys(v, m, h, i)
      /\ Sw(N + 1) = Starts(v, m, h, i)
  BY <1>1, <1>3
<1>5. /\ WillRun(log, views, h, i) <=>
            \/ i \in seen[h].running /\ \A k \in U : ~ D(k)
            \/ \E k \in U : S(k) /\ \A n \in (k + 1)..N : ~ D(n)
      /\ WillRun(long, w, h, i)' <=>
            \/ i \in seen[h].running /\ \A k \in V : ~ Dw(k)
            \/ \E k \in V : Sw(k) /\ \A n \in (k + 1)..Len(long) : ~ Dw(n)
  BY DEF WillRun
<1>6. /\ WillSayDead(log, views, h, i) <=> Said(h, i, "dead") \/ \E k \in U : D(k)
      /\ WillSayDead(long, w, h, i)' <=> Said(h, i, "dead")' \/ \E k \in V : Dw(k)
      /\ WillSayAlive(log, views, h, i) <=> Said(h, i, "alive") \/ \E k \in U : S(k)
      /\ WillSayAlive(long, w, h, i)' <=> Said(h, i, "alive")' \/ \E k \in V : Sw(k)
  BY DEF WillSayDead, WillSayAlive
<1> HIDE DEF long, N, v, D, S, Dw, Sw, U, V
<1>7. ASSUME WillRun(log, views, h, i), ~ Destroys(v, m, h, i) PROVE WillRun(long, w, h, i)'
  <2>1. CASE i \in seen[h].running /\ \A k \in U : ~ D(k)
    <3>1. \A k \in V : ~ Dw(k)
      BY <1>1, <1>2, <1>4, <1>7, <2>1
    <3> QED
      BY <1>5, <2>1, <3>1
  <2>2. ASSUME NEW k \in U, S(k), \A n \in (k + 1)..N : ~ D(n) PROVE WillRun(long, w, h, i)'
    <3>1. k \in 1..N /\ k \in V /\ Sw(k)
      BY <1>1, <1>2, <2>2
    <3>2. ASSUME NEW n \in (k + 1)..(N + 1) PROVE ~ Dw(n)
      <4>1. CASE n = N + 1
        BY <1>4, <1>7, <4>1
      <4>2. CASE n # N + 1
        <5>1. n \in (k + 1)..N /\ n \in 1..N
          BY <1>1, <3>1, <4>2
        <5> QED
          BY <1>2, <2>2, <5>1
      <4> QED
        BY <4>1, <4>2
    <3> QED
      BY <1>1, <1>5, <3>1, <3>2
  <2> QED
    BY <1>5, <1>7, <2>1, <2>2
<1>8. ASSUME Starts(v, m, h, i) PROVE WillRun(long, w, h, i)' /\ WillSayAlive(long, w, h, i)'
  <2>1. N + 1 \in V /\ Sw(N + 1)
    BY <1>1, <1>4, <1>8
  <2>2. \A n \in (N + 1 + 1)..(N + 1) : FALSE
    BY <1>1
  <2>3. \A n \in (N + 1 + 1)..Len(long) : ~ Dw(n)
    BY <1>1, <2>2
  <2> QED
    BY <1>5, <1>6, <2>1, <2>3
<1>9. ASSUME Destroys(v, m, h, i) PROVE WillSayDead(long, w, h, i)'
  <2>1. N + 1 \in V /\ Dw(N + 1)
    BY <1>1, <1>4, <1>9
  <2> QED
    BY <1>6, <2>1
<1>10. ASSUME WillSayDead(log, views, h, i), StillSaid(h, i, "dead")
       PROVE  WillSayDead(long, w, h, i)'
  BY <1>1, <1>2, <1>6, <1>10 DEF StillSaid
<1>11. ASSUME WillSayAlive(log, views, h, i), StillSaid(h, i, "alive")
       PROVE  WillSayAlive(long, w, h, i)'
  BY <1>1, <1>2, <1>6, <1>11 DEF StillSaid
<1> QED
  BY <1>7, <1>8, <1>9, <1>10, <1>11 DEF long, N, v

\* What a broadcast about another AI makes of an AI in a view
LEMMA OthersApplied ==
    ASSUME NEW v \in ViewType, NEW m \in Messages, NEW i \in DOMAIN v.ais,
           m.type \in {"created", "state"} => m.id # i
    PROVE  Applied(v, m).ais[i] = v.ais[i]
<1>1. CASE m.type \in {"giveaway", "resign", "died"}
  BY <1>1, AIsApplied
<1>2. CASE m.type = "created"
  <2>1. Applied(v, m).ais = Added(v.ais, m, None) /\ m.id # i
    BY <1>2, AIsApplied
  <2> QED
    BY <2>1 DEF Added
<1>3. CASE m.type = "state"
  <2>1. m.id # i /\ Applied(v, m).ais = IF Removed(v.ais[m.id].status, m.status)
                                        THEN [j \in DOMAIN v.ais \ {m.id} |-> v.ais[j]]
                                        ELSE [v.ais EXCEPT ![m.id].status = m.status]
    BY <1>3, AIsApplied
  <2> QED
    BY <2>1
<1> QED
  BY <1>1, <1>2, <1>3, MessageFacts

\* A broadcast about an AI that is not removed leaves it with its host.
LEMMA HostApplied ==
    ASSUME NEW v \in ViewType, NEW m \in Messages, m.type = "state", m.id \in DOMAIN v.ais,
           ~ Removed(v.ais[m.id].status, m.status)
    PROVE  Applied(v, m).ais[m.id].host = v.ais[m.id].host
<1>1. Applied(v, m).ais = [v.ais EXCEPT ![m.id].status = m.status]
  BY AIsApplied
<1>2. v.ais \in Tables
  BY DEF ViewType
<1>3. v.ais[m.id] \in Entry
  BY <1>2, TableFacts
<1>4. Applied(v, m).ais[m.id] = [v.ais[m.id] EXCEPT !.status = m.status]
  BY <1>1
<1> QED
  BY <1>3, <1>4 DEF Entry

\* A broadcast is obeyed in the end.
LEMMA ObeyedExtended ==
    ASSUME Shapes, NEW log, NEW views, OneHistory(log, views), Obeyed(log, views),
           NEW m \in Messages, Broadcast(m), seen' = seen,
           NEW w, \A n \in 0..Len(log) : w[n] = views[n],
           w[Len(log) + 1] = Applied(views[Len(log)], m),
           \A i \in DOMAIN skirmishAIs' : Left(m, i) \/ Told(m, i) \/ Made(m, i)
    PROVE  Obeyed(Append(log, m), w)'
<1> DEFINE long == Append(log, m)
           v == views[Len(log)]
           u == w[Len(log) + 1]
<1>1. v \in ViewType /\ Agrees(v, skirmishAIs) /\ Len(long) = Len(log) + 1 /\ u = Applied(v, m)
  BY DEF OneHistory, Replay
<1>2. \A i \in DOMAIN skirmishAIs : i \in DOMAIN v.ais /\ skirmishAIs[i].host \in Players
  BY <1>1, TableFacts, EntryFacts DEF Agrees, Shapes
<1>3. ASSUME NEW i, NEW h \in Players
      PROVE  /\ \/ WillRun(log, views, h, i) /\ ~ Destroys(v, m, h, i)
                \/ Starts(v, m, h, i)
                => WillRun(long, w, h, i)'
             /\ \/ WillSayDead(log, views, h, i) /\ StillSaid(h, i, "dead")
                \/ Destroys(v, m, h, i)
                => WillSayDead(long, w, h, i)'
             /\ \/ WillSayAlive(log, views, h, i) /\ StillSaid(h, i, "alive")
                \/ Starts(v, m, h, i)
                => WillSayAlive(long, w, h, i)'
  BY BroadcastHeard
<1>4. ASSUME NEW i, NEW h \in Players, h = skirmishAIs[i].host, i \in DOMAIN skirmishAIs
      PROVE  /\ WillRun(log, views, h, i) \/ (v.ais[i].host = h /\ WillSayDead(log, views, h, i))
             /\ v.ais[i].host = h =>
                  \/ skirmishAIs[i].status = "alive"
                  \/ skirmishAIs[i].status = "dead" /\ WillSayAlive(log, views, h, i)
                  \/ WillSayDead(log, views, h, i)
  BY <1>4 DEF Obeyed, Obeys
<1>5. ASSUME NEW i \in DOMAIN skirmishAIs', NEW h \in Players, h = skirmishAIs'[i].host,
             /\ WillRun(long, w, h, i)' \/ (u.ais[i].host = h /\ WillSayDead(long, w, h, i)')
             /\ u.ais[i].host = h =>
                  \/ skirmishAIs'[i].status = "alive"
                  \/ skirmishAIs'[i].status = "dead" /\ WillSayAlive(long, w, h, i)'
                  \/ WillSayDead(long, w, h, i)'
      PROVE  Obeys(long, w, i)'
  BY <1>1, <1>5 DEF Obeys
<1>6. \A i : m.type # "state" \/ m.id # i => \A h : ~ Destroys(v, m, h, i)
  BY DEF Destroys
<1> HIDE DEF long, v, u
<1>7. ASSUME NEW i \in DOMAIN skirmishAIs', Left(m, i)
      PROVE  Obeys(long, w, i)'
  <2>1. PICK h \in Players : h = skirmishAIs[i].host
    BY <1>2, <1>7 DEF Left
  <2>2. /\ skirmishAIs'[i] = skirmishAIs[i] /\ i \in DOMAIN skirmishAIs
        /\ StillSaid(h, i, "dead") /\ StillSaid(h, i, "alive") /\ ~ Destroys(v, m, h, i)
    BY <1>6, <1>7, <2>1 DEF Left
  <2>3. u.ais[i] = v.ais[i]
    BY <1>1, <1>2, <1>7, <2>2, OthersApplied DEF Left
  <2>4. /\ WillRun(log, views, h, i) => WillRun(long, w, h, i)'
        /\ WillSayDead(log, views, h, i) => WillSayDead(long, w, h, i)'
        /\ WillSayAlive(log, views, h, i) => WillSayAlive(long, w, h, i)'
    BY <1>3, <2>2
  <2>5. /\ WillRun(log, views, h, i) \/ (v.ais[i].host = h /\ WillSayDead(log, views, h, i))
        /\ v.ais[i].host = h =>
             \/ skirmishAIs[i].status = "alive"
             \/ skirmishAIs[i].status = "dead" /\ WillSayAlive(log, views, h, i)
             \/ WillSayDead(log, views, h, i)
    BY <1>4, <2>1, <2>2
  <2> QED
    BY <1>5, <2>1, <2>2, <2>3, <2>4, <2>5
<1>8. ASSUME NEW i \in DOMAIN skirmishAIs', Told(m, i)
      PROVE  Obeys(long, w, i)'
  <2>1. PICK h \in Players : h = skirmishAIs[i].host
    BY <1>2, <1>8 DEF Told
  <2>2. /\ m.type = "state" /\ m.id = i /\ i \in DOMAIN skirmishAIs
        /\ h = skirmishAIs'[i].host /\ skirmishAIs'[i].status = m.status
        /\ m.status = "dead" => skirmishAIs[i].status = "reloading"
        /\ m.status = "alive" => StillSaid(h, i, "dead")
    BY <1>8, <2>1 DEF Told
  <2>3. m.status = "dead" => v.ais[i].status = "reloading"
    BY <1>1, <2>2 DEF Agrees
  <2>4. u.ais[i].host = v.ais[i].host
    <3>1. i \in DOMAIN v.ais /\ ~ Removed(v.ais[i].status, m.status)
      BY <1>2, <2>2, <2>3 DEF Removed
    <3> QED
      BY <1>1, <2>2, <3>1, HostApplied
  <2>5. /\ WillRun(log, views, h, i) \/ (v.ais[i].host = h /\ WillSayDead(log, views, h, i))
    BY <1>4, <2>1, <2>2
  <2>6. CASE v.ais[i].host # h
    <3>1. ~ Destroys(v, m, h, i)
      BY <2>2, <2>6 DEF Destroys
    <3>2. WillRun(long, w, h, i)'
      BY <1>3, <2>5, <2>6, <3>1
    <3> QED
      BY <1>5, <2>2, <2>4, <2>6, <3>2
  <2>7. CASE v.ais[i].host = h /\ m.status \in {"dieing", "reloading"}
    <3>1. Destroys(v, m, h, i)
      BY <2>2, <2>7 DEF Destroys
    <3>2. WillSayDead(long, w, h, i)'
      BY <1>3, <3>1
    <3> QED
      BY <1>5, <2>2, <2>4, <2>7, <3>2
  <2>8. CASE v.ais[i].host = h /\ m.status = "alive"
    <3>1. ~ Destroys(v, m, h, i)
      BY <2>8 DEF Destroys
    <3>2. WillRun(long, w, h, i)' \/ WillSayDead(long, w, h, i)'
      BY <1>3, <2>2, <2>5, <2>8, <3>1
    <3> QED
      BY <1>5, <2>2, <2>4, <2>8, <3>2
  <2>9. CASE v.ais[i].host = h /\ m.status = "dead"
    <3>1. Starts(v, m, h, i)
      BY <2>2, <2>3, <2>9 DEF Starts
    <3>2. WillRun(long, w, h, i)' /\ WillSayAlive(long, w, h, i)'
      BY <1>3, <3>1
    <3> QED
      BY <1>5, <2>2, <2>9, <3>2
  <2>10. m.status \in Status
    BY <2>2, MessageFacts
  <2> QED
    BY <2>6, <2>7, <2>8, <2>9, <2>10 DEF Status
<1>9. ASSUME NEW i \in DOMAIN skirmishAIs', Made(m, i)
      PROVE  Obeys(long, w, i)'
  <2>1. PICK h \in Players : h = m.player
    BY <1>9, MessageFacts DEF Made
  <2>2. Starts(v, m, h, i) /\ skirmishAIs'[i].host = h /\ skirmishAIs'[i].status = "alive"
    BY <1>9, <2>1 DEF Made, Starts
  <2>3. WillRun(long, w, h, i)'
    BY <1>3, <2>2
  <2> QED
    BY <1>5, <2>2, <2>3
<1>10. \A i \in DOMAIN skirmishAIs' : Obeys(long, w, i)'
  BY <1>7, <1>8, <1>9
<1> QED
  BY <1>10 DEF Obeyed, long

\* A report that is not the request processed is still to be heard.
LEMMA TakenKept ==
    ASSUME Shapes, NEW p \in Players, NEW type, Takes(p, type),
           NEW h \in Players, NEW i, NEW s, h = p => Head(up[p]) # StateChanged(p, i, s)
    PROVE  StillSaid(h, i, s)
<1> SUFFICES ASSUME Said(h, i, s) PROVE Said(h, i, s)'
  BY DEF StillSaid
<1>1. up \in [Players -> Seq(Messages)] /\ up[p] # <<>> /\ up' = [up EXCEPT ![p] = Tail(@)]
  BY DEF Shapes, Takes
<1>2. PICK k \in DOMAIN up[h] : up[h][k] = StateChanged(h, i, s)
  BY DEF Said
<1>3. CASE h # p
  <2>1. up'[h] = up[h]
    BY <1>1, <1>3
  <2> QED
    BY <1>2, <2>1 DEF Said
<1>4. CASE h = p
  <2>1. up[p] \in Seq(Messages) /\ up'[p] = Tail(up[p]) /\ Head(up[p]) = up[p][1]
    BY <1>1
  <2>2. k # 1 /\ k \in 1..Len(up[p]) /\ Len(up[p]) \in Nat
    BY <1>2, <1>4, <2>1
  <2>3. k - 1 \in DOMAIN up'[p] /\ up'[p][k - 1] = up[p][k]
    BY <1>1, <2>1, <2>2
  <2> QED
    BY <1>2, <1>4, <2>3 DEF Said
<1> QED
  BY <1>3, <1>4

\* Requests about other things are no reports.
LEMMA OthersTaken ==
    ASSUME Shapes, NEW p \in Players, NEW type, Takes(p, type), type # "state",
           NEW h \in Players, NEW i, NEW s
    PROVE  StillSaid(h, i, s)
<1>1. StateChanged(p, i, s).type = "state"
  BY DEF StateChanged
<1>2. Head(up[p]).type = type
  BY DEF Takes
<1> QED
  BY <1>1, <1>2, TakenKept

-----------------------------------------------------------------------------
(* The steps of the history                                                *)

\* A broadcast is the next event of the history. What the server has after it must be among
\* what the event makes of the view of those who have read everything, and do what it says.
LEMMA BroadcastExtends ==
    ASSUME Shapes, HistoryInv, NEW m \in Messages, Broadcast(m), seen' = seen,
           \A v \in ViewType :
               Agrees(v, skirmishAIs) =>
                   Applicable(v, m) /\ Agrees(Applied(v, m), skirmishAIs'),
           \A i \in DOMAIN skirmishAIs' : Left(m, i) \/ Told(m, i) \/ Made(m, i)
    PROVE  HistoryInv'
<1>1. PICK log, views : OneHistory(log, views) /\ Obeyed(log, views)
  BY DEF HistoryInv
<1> DEFINE N == Len(log)
           long == Append(log, m)
<1>2. /\ Replay(log, views) /\ N \in Nat /\ log \in Seq(Messages) /\ views[N] \in ViewType
      /\ Agrees(views[N], skirmishAIs)
  BY <1>1 DEF OneHistory, Replay
<1>3. Applicable(views[N], m) /\ Agrees(Applied(views[N], m), skirmishAIs')
  BY <1>2
<1>4. PICK w : /\ Replay(long, w)
               /\ \A n \in 0..N : w[n] = views[n]
               /\ w[N + 1] = Applied(views[N], m)
  BY <1>2, <1>3, ReplayExtended
<1>5. /\ Len(long) = N + 1 /\ long[N + 1] = m
      /\ \A n \in 1..N : long[n] = log[n]
  BY <1>2
<1>6. Obeyed(long, w)'
  BY <1>1, <1>4, ObeyedExtended
<1> HIDE DEF long
<1>7. ASSUME NEW p \in Players
      PROVE  Follows(long, w, p)'
  <2>1. Follows(log, views, p)
    BY <1>1 DEF OneHistory
  <2>2. down[p] \in Seq(Messages) /\ down'[p] = Append(down[p], m)
    BY DEF Shapes, Broadcast
  <2>3. Len(down'[p]) = Len(down[p]) + 1 /\ Len(down[p]) \in Nat
    BY <2>2
  <2>4. Read(log, p) \in 0..N /\ Read(long, p)' = Read(log, p)
    BY <1>2, <1>5, <2>1, <2>3 DEF Read, Follows
  <2>5. View(seen'[p]) = w[Read(long, p)']
    BY <1>4, <2>1, <2>4 DEF Follows
  <2>6. ASSUME NEW j \in 1..Len(down'[p])
        PROVE  down'[p][j] = long[Read(log, p) + j]
    <3>1. CASE j = Len(down[p]) + 1
      <4>1. Read(log, p) + j = N + 1
        <5> DEFINE L == Len(down[p])
                   R == Read(log, p)
        <5>1. R = N - L /\ N \in Nat /\ L \in Nat /\ j = L + 1
          BY <1>2, <2>3, <3>1 DEF Read
        <5> HIDE DEF N, L, R
        <5>2. R + j = N + 1
          BY <5>1
        <5> QED
          BY <5>2 DEF N, R
      <4>2. down'[p][j] = m
        BY <2>2, <3>1
      <4> QED
        BY <1>5, <4>1, <4>2
    <3>2. CASE j # Len(down[p]) + 1
      <4>1. j \in 1..Len(down[p]) /\ down'[p][j] = down[p][j]
        BY <2>2, <2>3, <3>2
      <4>2. Read(log, p) + j \in 1..N
        BY <1>2, <2>3, <2>4, <4>1 DEF Read
      <4> QED
        BY <1>5, <2>1, <4>1, <4>2 DEF Follows
    <3> QED
      BY <3>1, <3>2
  <2> QED
    BY <2>4, <2>5, <2>6 DEF Follows
<1>8. OneHistory(long, w)'
  BY <1>3, <1>4, <1>5, <1>7 DEF OneHistory
<1> QED
  BY <1>6, <1>8 DEF HistoryInv

\* A step that neither broadcasts nor changes a view or the AIs, and loses no report, leaves it as
\* it is.
LEMMA HistoryKept ==
    ASSUME Shapes, HistoryInv, down' = down, skirmishAIs' = skirmishAIs, ReportsKept,
           \A p \in Players : View(seen'[p]) = View(seen[p]) /\ seen'[p].running = seen[p].running
    PROVE  HistoryInv'
<1>1. PICK log, views : OneHistory(log, views) /\ Obeyed(log, views)
  BY DEF HistoryInv
<1>2. \A p \in Players : Follows(log, views, p)'
  BY <1>1 DEF OneHistory, Follows, Read
<1>3. OneHistory(log, views)'
  BY <1>1, <1>2 DEF OneHistory
<1>4. Obeyed(log, views)'
  BY <1>1, ObeyedKept
<1> QED
  BY <1>3, <1>4 DEF HistoryInv

-----------------------------------------------------------------------------
(* The first state                                                         *)

\* The first AIs are in the table; the other ids are free.
LEMMA StartTables == StartAIs \in Tables /\ StartFree \in Seq(Ids)
<1>1. DOMAIN StartAIs = 0..(Len(AIs) - 1) /\ DOMAIN StartAIs \subseteq Ids
  BY ConstantTypes DEF StartAIs, Ids
<1>2. ASSUME NEW i \in DOMAIN StartAIs
      PROVE  StartAIs[i] \in Entry
  <2>1. i + 1 \in 1..Len(AIs) /\ StartAIs[i] = AI(AIs[i + 1].team, AIs[i + 1].host)
    BY <1>1, ConstantTypes DEF StartAIs
  <2> QED
    BY <2>1, ConstantTypes, NewEntry
<1>3. StartAIs = [i \in DOMAIN StartAIs |-> StartAIs[i]]
  BY DEF StartAIs
<1>4. StartFree \in Seq(Ids)
  <2> DEFINE n == MaxAIs - Len(AIs)
  <2>1. n \in Nat /\ \A i \in 1..n : MaxAIs - i \in Ids
    BY ConstantTypes DEF Ids
  <2>2. StartFree = [i \in 1..n |-> MaxAIs - i]
    BY DEF StartFree
  <2> HIDE DEF n
  <2> QED
    BY <2>1, <2>2
<1> QED
  BY <1>1, <1>2, <1>3, <1>4, TableFacts

\* In the first state the history is empty, and all clients have the view of the start script.
LEMMA InitIndInv == Init => IndInv
<1> SUFFICES ASSUME Init PROVE IndInv
  OBVIOUS
<1>1. StartAIs \in Tables /\ StartFree \in Seq(Ids)
  BY StartTables
<1>2. Copy.spectator = StartSpectators /\ Copy.leader = LeaderOf /\ Copy.ais = StartAIs
  BY DEF Copy
<1>3. StartSpectators \in Spectators /\ LeaderOf \in Leaders
  BY ConstantTypes DEF Spectators, StartSpectators, Leaders
<1>4. aiClientLinks \in [Players -> SUBSET Ids]
  <2>1. DOMAIN StartAIs \subseteq Ids
    BY <1>1, TableFacts
  <2> QED
    BY <2>1 DEF Init
<1>5. Copy \in CopyType
  BY <1>1, <1>3 DEF Copy, CopyType
<1>6. ASSUME NEW p \in Players
      PROVE  seen[p] \in CopyType /\ View(seen[p]) = View(Copy)
  <2>1. seen[p] = [Copy EXCEPT !.running = aiClientLinks[p]]
    BY DEF Init
  <2>2. seen[p] \in CopyType
    BY <1>4, <1>5, <2>1 DEF CopyType
  <2>3. View(seen[p]) = View(Copy)
    BY <1>5, <2>1 DEF View, CopyType
  <2> QED
    BY <2>2, <2>3
<1>7. Shapes
  <2>1. seen \in [Players -> CopyType]
    BY <1>6 DEF Init
  <2>2. down \in [Players -> Seq(Messages)] /\ up \in [Players -> Seq(Messages)]
    BY DEF Init
  <2> QED
    BY <1>1, <1>2, <1>3, <1>4, <2>1, <2>2 DEF Init, Shapes
<1>8. HistoryInv
  <2> DEFINE views == [n \in 0..0 |-> View(Copy)]
  <2>1. View(Copy) \in ViewType
    BY <1>5, ViewFacts
  <2>2. Replay(<<>>, views)
    BY <2>1 DEF Replay
  <2>3. ASSUME NEW p \in Players
        PROVE  Follows(<<>>, views, p)
    <3>1. down[p] = <<>> /\ Read(<<>>, p) = 0
      BY DEF Init, Read
    <3> QED
      BY <1>6, <3>1 DEF Follows
  <2>4. Agrees(views[0], skirmishAIs)
    <3>1. View(Copy).ais = skirmishAIs
      BY <1>2 DEF Init, View
    <3> QED
      BY <3>1 DEF Agrees
  <2>5. OneHistory(<<>>, views)
    BY <2>2, <2>3, <2>4 DEF OneHistory
  <2>6. ASSUME NEW i \in DOMAIN skirmishAIs
        PROVE  Obeys(<<>>, views, i)
    <3>1. skirmishAIs = StartAIs /\ skirmishAIs[i] \in Entry
      BY <1>1, TableFacts DEF Init
    <3>2. skirmishAIs[i].host \in Players /\ skirmishAIs[i].status = "alive"
      <4>1. i \in 0..(Len(AIs) - 1) /\ StartAIs[i] = AI(AIs[i + 1].team, AIs[i + 1].host)
        BY <3>1 DEF StartAIs
      <4>2. StartAIs[i].status = "alive"
        BY <4>1 DEF AI
      <4> QED
        BY <3>1, <4>2, EntryFacts
    <3>3. PICK h \in Players : h = skirmishAIs[i].host
      BY <3>2
    <3>4. i \in seen[h].running
      <4>1. i \in aiClientLinks[h]
        BY <3>1, <3>3 DEF Init
      <4>2. seen[h] = [Copy EXCEPT !.running = aiClientLinks[h]]
        BY DEF Init
      <4> QED
        BY <4>1, <4>2 DEF Copy
    <3>5. Unread(<<>>, h) = {}
      <4>1. down[h] = <<>>
        BY DEF Init
      <4>2. Read(<<>>, h) = 0
        BY <4>1 DEF Read
      <4> QED
        BY <4>2 DEF Unread
    <3>6. WillRun(<<>>, views, h, i)
      BY <3>4, <3>5 DEF WillRun
    <3> QED
      BY <3>2, <3>3, <3>6 DEF Obeys
  <2> QED
    BY <2>5, <2>6 DEF HistoryInv, Obeyed
<1>9. LiveAIsHaveLinks
  <2>1. ASSUME NEW i \in DOMAIN StartAIs
        PROVE  StartAIs[i].host \in Players
    <3>1. StartAIs[i] \in Entry
      BY <1>1, TableFacts
    <3> QED
      BY <3>1, EntryFacts
  <2> QED
    BY <2>1 DEF Init, LiveAIsHaveLinks
<1> QED
  BY <1>7, <1>8, <1>9 DEF IndInv

-----------------------------------------------------------------------------
(* The steps of clients                                                    *)

\* A client that asks for something sees what it saw, but for what it remembers of its own.
LEMMA RequestPreserves ==
    ASSUME IndInv, NEW p \in Players, NEW m \in Messages, Request(p, m),
           seen' \in [Players -> CopyType],
           \A q \in Players : View(seen'[q]) = View(seen[q]) /\ seen'[q].running = seen[q].running
    PROVE  IndInv'
<1>1. up' \in [Players -> Seq(Messages)] /\ ReportsKept
  <2>1. up \in [Players -> Seq(Messages)] /\ up' = [up EXCEPT ![p] = Append(@, m)]
    BY DEF IndInv, Shapes, Request
  <2>2. ASSUME NEW h \in Players, NEW i, NEW s, Said(h, i, s)
        PROVE  Said(h, i, s)'
    <3>1. PICK k \in DOMAIN up[h] : up[h][k] = StateChanged(h, i, s)
      BY <2>2 DEF Said
    <3>2. k \in DOMAIN up'[h] /\ up'[h][k] = up[h][k]
      BY <2>1, <3>1
    <3> QED
      BY <3>1, <3>2 DEF Said
  <2> QED
    BY <2>1, <2>2 DEF ReportsKept, StillSaid
<1>2. Shapes'
  BY <1>1 DEF IndInv, Shapes, Request, server
<1>3. HistoryInv'
  BY <1>1, HistoryKept DEF IndInv, Request, server
<1>4. LiveAIsHaveLinks'
  BY DEF IndInv, LiveAIsHaveLinks, Request, server
<1> QED
  BY <1>2, <1>3, <1>4 DEF IndInv

\* The same, of one that remembers nothing
LEMMA PlainRequestPreserves ==
    ASSUME IndInv, NEW p \in Players, NEW m \in Messages, Request(p, m), seen' = seen
    PROVE  IndInv'
  BY RequestPreserves DEF IndInv, Shapes

\* The least local AI of a team is an AI.
LEMMA LocalFacts ==
    ASSUME Shapes, NEW p \in Players, NEW t, Local(p, t) # {}
    PROVE  Min(Local(p, t)) \in Ids
<1>1. DOMAIN seen[p].ais \subseteq Ids
  BY TableFacts, ViewFacts DEF Shapes
<1>2. Local(p, t) \subseteq Ids /\ Local(p, t) \subseteq Nat
  BY <1>1, ConstantTypes DEF Local, AIsIn, Ids
<1> QED
  BY <1>2, MinFacts

\* The requests of players. Who gives away a team of his own has one: he would see himself
\* as a spectator, if he had none.
LEMMA RequestsPreserve ==
    ASSUME IndInv, NEW p \in Players, NEW t \in Teams, NEW to \in Teams,
           \/ GiveOwnTeam(p, to)
           \/ AIKill(p, t) \/ AIReload(p, t) \/ AIKillShare(p, t, to) \/ AIControl(p, t)
    PROVE  IndInv'
<1>1. CASE GiveOwnTeam(p, to)
  <2>1. seen[p].spectator \in Spectators /\ p \notin seen[p].spectator
    BY <1>1, ViewFacts DEF IndInv, Shapes, GiveOwnTeam
  <2>2. TeamOf[p] \in Teams
    BY <2>1 DEF Spectators, StartSpectators
  <2>3. GiveAway(p, TeamOf[p], to) \in Messages
    BY <2>2, MessageTypes
  <2> QED
    BY <1>1, <2>3, PlainRequestPreserves DEF GiveOwnTeam
<1>2. CASE AIKill(p, t)
  <2>1. Min(Local(p, t)) \in Ids
    BY <1>2, LocalFacts DEF AIKill, IndInv
  <2>2. StateChanged(p, Min(Local(p, t)), "dieing") \in Messages
    BY <2>1, MessageTypes DEF Status
  <2> QED
    BY <1>2, <2>2, PlainRequestPreserves DEF AIKill
<1>3. CASE AIReload(p, t)
  <2>1. Min(Local(p, t)) \in Ids
    BY <1>3, LocalFacts DEF AIReload, IndInv
  <2>2. StateChanged(p, Min(Local(p, t)), "reloading") \in Messages
    BY <2>1, MessageTypes DEF Status
  <2> QED
    BY <1>3, <2>2, PlainRequestPreserves DEF AIReload
<1>4. CASE AIKillShare(p, t, to)
  BY <1>4, MessageTypes, PlainRequestPreserves DEF AIKillShare
<1>5. CASE AIControl(p, t)
  <2>1. seen \in [Players -> CopyType]
    BY DEF IndInv, Shapes
  <2> DEFINE d == [seen[p] EXCEPT !.creating = @ \cup {t}]
  <2>2. d \in CopyType /\ View(d) = View(seen[p]) /\ d.running = seen[p].running
    BY <2>1 DEF CopyType, View
  <2>3. seen' = [seen EXCEPT ![p] = d]
    BY <1>5 DEF AIControl
  <2> HIDE DEF d
  <2>4. /\ seen' \in [Players -> CopyType]
        /\ \A q \in Players : View(seen'[q]) = View(seen[q]) /\ seen'[q].running = seen[q].running
    BY <2>1, <2>2, <2>3
  <2>5. Creates(p, 0, t) \in Messages
    BY ConstantTypes, MessageTypes
  <2>6. Request(p, Creates(p, 0, t))
    BY <1>5 DEF AIControl
  <2> QED
    BY <2>4, <2>5, <2>6, RequestPreserves
<1> QED
  BY <1>1, <1>2, <1>3, <1>4, <1>5

\* A client reads the event of the history that comes next to it.
LEMMA ClientReadNetPreserves ==
    ASSUME IndInv, NEW p \in Players, ClientReadNet(p)
    PROVE  IndInv'
<1>1. Shapes /\ HistoryInv /\ LiveAIsHaveLinks /\ down[p] # <<>>
  BY DEF IndInv, ClientReadNet
<1>2. PICK log, views : OneHistory(log, views) /\ Obeyed(log, views)
  BY <1>1 DEF HistoryInv
<1>3. PICK m \in Messages : m = Head(down[p])
  BY <1>1, <1>2, NextApplicable
<1>4. /\ Applicable(View(seen[p]), m) /\ views[Read(log, p) + 1] = Applied(View(seen[p]), m)
      /\ Read(log, p) + 1 \in 1..Len(log)
  BY <1>1, <1>2, <1>3, NextApplicable
<1>5. /\ seen \in [Players -> CopyType] /\ down \in [Players -> Seq(Messages)]
      /\ up \in [Players -> Seq(Messages)]
  BY <1>1 DEF Shapes
<1>6. /\ seen' = [seen EXCEPT ![p] = Sees(seen[p], m, p)]
      /\ down' = [down EXCEPT ![p] = Tail(@)]
      /\ up' = [up EXCEPT ![p] = @ \o Answers(seen[p], m, p)]
      /\ UNCHANGED <<server, requests, isDead>>
  BY <1>3 DEF ClientReadNet
<1>7. /\ Sees(seen[p], m, p) \in CopyType
      /\ View(Sees(seen[p], m, p)) = Applied(View(seen[p]), m)
  BY <1>4, <1>5, ViewOfSeen
<1>8. Shapes'
  <2>1. seen' \in [Players -> CopyType]
    BY <1>5, <1>6, <1>7
  <2>2. Answers(seen[p], m, p) \in Seq(Messages)
    BY <1>1, AnswersType
  <2>3. up' \in [Players -> Seq(Messages)]
    BY <1>5, <1>6, <2>2
  <2>4. down' \in [Players -> Seq(Messages)]
    <3>1. Tail(down[p]) \in Seq(Messages)
      BY <1>1, <1>5
    <3> QED
      BY <1>5, <1>6, <3>1
  <2> QED
    BY <1>1, <1>6, <2>1, <2>3, <2>4 DEF Shapes, server
<1>9. ASSUME NEW q \in Players
      PROVE  Follows(log, views, q)'
  <2>1. Follows(log, views, q) /\ Len(log) \in Nat
    BY <1>2 DEF OneHistory, Replay
  <2>2. CASE q # p
    <3>1. down'[q] = down[q] /\ seen'[q] = seen[q]
      BY <1>5, <1>6, <2>2
    <3> QED
      BY <2>1, <3>1 DEF Follows, Read
  <2>3. CASE q = p
    <3>1. down'[p] = Tail(down[p]) /\ down[p] \in Seq(Messages) /\ seen'[p] = Sees(seen[p], m, p)
      BY <1>5, <1>6
    <3>2. /\ Len(down[p]) \in Nat /\ Len(down'[p]) = Len(down[p]) - 1
          /\ \A j \in 1..Len(down'[p]) : j + 1 \in 1..Len(down[p]) /\ down'[p][j] = down[p][j + 1]
      BY <1>1, <3>1
    <3>3. Read(log, p)' = Read(log, p) + 1 /\ Read(log, p) \in Int /\ Read(log, p)' >= 0
      BY <1>4, <2>1, <3>2 DEF Read
    <3>4. View(seen'[p]) = views[Read(log, p)']
      BY <1>4, <1>7, <3>1, <3>3
    <3>5. ASSUME NEW j \in 1..Len(down'[p])
          PROVE  down'[p][j] = log[Read(log, p)' + j]
      <4>1. down'[p][j] = log[Read(log, p) + (j + 1)]
        BY <2>1, <2>3, <3>2 DEF Follows
      <4>2. Read(log, p) + (j + 1) = Read(log, p)' + j
        BY <3>2, <3>3
      <4> QED
        BY <4>1, <4>2
    <3> QED
      BY <2>3, <3>3, <3>4, <3>5 DEF Follows
  <2> QED
    BY <2>2, <2>3
<1>10. OneHistory(log, views)'
  BY <1>2, <1>6, <1>9 DEF OneHistory, server
<1>11. HistoryInv'
  BY <1>1, <1>2, <1>8, <1>10, ObeyedWhenRead DEF HistoryInv
<1>12. LiveAIsHaveLinks'
  BY <1>1, <1>6 DEF LiveAIsHaveLinks, server
<1> QED
  BY <1>8, <1>11, <1>12 DEF IndInv

-----------------------------------------------------------------------------
(* The steps of the server                                                 *)

\* A request that is turned down only goes, if it is no report about an AI of the server.
LEMMA RejectedPreserves ==
    ASSUME IndInv, NEW p \in Players, NEW type, Takes(p, type), UNCHANGED <<server, down>>,
           \A i \in DOMAIN skirmishAIs, s \in Status :
               skirmishAIs[i].host = p => Head(up[p]) # StateChanged(p, i, s)
    PROVE  IndInv'
<1>1. up' \in [Players -> Seq(Messages)]
  BY TakesFacts DEF IndInv
<1>2. Shapes'
  BY <1>1 DEF IndInv, Shapes, Takes, server
<1>3. HistoryInv'
  <2>1. ReportsKept
    BY TakenKept DEF IndInv, ReportsKept, Status
  <2> QED
    BY <2>1, HistoryKept DEF IndInv, Takes, server
<1>4. LiveAIsHaveLinks'
  BY DEF IndInv, LiveAIsHaveLinks, server
<1> QED
  BY <1>2, <1>3, <1>4 DEF IndInv

\* The same, of other requests
LEMMA OtherRejectedPreserves ==
    ASSUME IndInv, NEW p \in Players, NEW type, Takes(p, type), type # "state",
           UNCHANGED <<server, down>>
    PROVE  IndInv'
<1>1. ASSUME NEW i, NEW s PROVE Head(up[p]) # StateChanged(p, i, s)
  BY DEF Takes, StateChanged
<1> QED
  BY <1>1, RejectedPreserves

\* A team can die at any place of the history.
LEMMA TeamDiesPreserves ==
    ASSUME IndInv, NEW t \in Teams, TeamDies(t)
    PROVE  IndInv'
<1>1. PICK m \in Messages : m = Died(t)
  BY MessageTypes
<1>2. Broadcast(m) /\ seen' = seen /\ up' = up /\ UNCHANGED server /\ isDead' = isDead \cup {t}
      /\ m.type = "died"
  BY <1>1 DEF TeamDies, Died
<1>3. Shapes'
  BY <1>2, BroadcastType DEF IndInv, Shapes, server
<1>4. ASSUME NEW v \in ViewType, Agrees(v, skirmishAIs)
      PROVE  Applicable(v, m) /\ Agrees(Applied(v, m), skirmishAIs')
  <2>1. Applied(v, m).ais = v.ais
    BY <1>2, AIsApplied
  <2> QED
    BY <1>2, <1>4, <2>1 DEF Applicable, Agrees, server
<1>5. HistoryInv'
  <2>1. \A i \in DOMAIN skirmishAIs' : Left(m, i)
    BY <1>2 DEF Left, StillSaid, Said, server
  <2> QED
    BY <1>2, <1>4, <2>1, BroadcastExtends DEF IndInv
<1>6. LiveAIsHaveLinks'
  BY <1>2 DEF IndInv, LiveAIsHaveLinks, server
<1> QED
  BY <1>3, <1>5, <1>6 DEF IndInv

\* A team that the server gives away may have lost an AI, the clients' copies have it still.
LEMMA ProcessGiveAwayPreserves ==
    ASSUME IndInv, NEW p \in Players, ProcessGiveAway(p)
    PROVE  IndInv'
<1>1. Takes(p, "giveaway")
  BY DEF ProcessGiveAway
<1>2. PICK m \in Messages : m = Head(up[p])
  BY <1>1, TakesFacts DEF IndInv
<1>3. /\ m.type = "giveaway" /\ seen' = seen /\ up' \in [Players -> Seq(Messages)]
      /\ isDead' = isDead
  BY <1>1, <1>2, TakesFacts DEF IndInv, Takes
<1>4. CASE RejectedGiveAway(p, m.from) /\ UNCHANGED <<server, down>>
  BY <1>1, <1>4, OtherRejectedPreserves
<1>5. CASE ~ (RejectedGiveAway(p, m.from) /\ UNCHANGED <<server, down>>)
  <2> DEFINE own == m.from = TeamOf[m.player]
  <2>1. /\ Broadcast(m)
        /\ spectator' = spectator \cup {p} \/ spectator' = spectator
        /\ \/ \E i \in FirstAI(p, m.from) : Release(i)
           \/ UNCHANGED <<skirmishAIs, freeSkirmishAIs>>
        /\ Abandoned(m.from) \/ UNCHANGED <<active, leader>>
        /\ UNCHANGED aiClientLinks
    <3>1. /\ Broadcast(Head(up[p])) /\ UNCHANGED aiClientLinks
          /\ IF m.from = TeamOf[p] THEN spectator' = spectator \cup {p} ELSE UNCHANGED spectator
          /\ IF m.from # TeamOf[p] /\ Humans(spectator, m.from) = {}
             THEN \E i \in FirstAI(p, m.from) : Release(i)
             ELSE UNCHANGED <<skirmishAIs, freeSkirmishAIs>>
          /\ IF /\ m.from = TeamOf[p] \/ Humans(spectator, m.from) = {}
                /\ Controllers(spectator, skirmishAIs, m.from) = 1
             THEN Abandoned(m.from) ELSE UNCHANGED <<active, leader>>
      BY <1>2, <1>5 DEF ProcessGiveAway
    <3> QED
      BY <1>2, <3>1
  <2>2. FirstAI(p, m.from) \subseteq Ids
    <3>1. DOMAIN skirmishAIs \subseteq Ids
      BY TableFacts DEF IndInv, Shapes
    <3>2. AIsOf(p, m.from) \subseteq Ids /\ AIsOf(p, m.from) \subseteq Nat
      BY <3>1, ConstantTypes DEF AIsOf, AIsIn, Ids
    <3> QED
      BY <3>2, MinFacts DEF FirstAI
  <2>3. /\ skirmishAIs' \in Tables /\ freeSkirmishAIs' \in Seq(Ids)
        /\ DOMAIN skirmishAIs' \subseteq DOMAIN skirmishAIs
        /\ \A j \in DOMAIN skirmishAIs' : skirmishAIs'[j] = skirmishAIs[j]
    <3>1. CASE \E i \in FirstAI(p, m.from) : Release(i)
      <4>1. PICK i \in Ids : Release(i)
        BY <2>2, <3>1
      <4> QED
        BY <4>1, ReleaseFacts DEF IndInv
    <3>2. CASE UNCHANGED <<skirmishAIs, freeSkirmishAIs>>
      BY <3>2 DEF IndInv, Shapes
    <3> QED
      BY <2>1, <3>1, <3>2
  <2>4. leader' \in Leaders /\ active' \subseteq Teams
    BY <2>1, AbandonedType DEF IndInv, Shapes
  <2>5. spectator' \in Spectators
    BY <2>1, SpectatorFacts DEF IndInv, Shapes
  <2>6. Shapes'
    BY <1>3, <2>1, <2>3, <2>4, <2>5, BroadcastType DEF IndInv, Shapes
  <2>7. ASSUME NEW v \in ViewType, Agrees(v, skirmishAIs)
        PROVE  Applicable(v, m) /\ Agrees(Applied(v, m), skirmishAIs')
    <3>1. Applied(v, m).ais = v.ais
      BY <1>3, AIsApplied
    <3> QED
      BY <1>3, <2>3, <2>7, <3>1 DEF Applicable, Agrees
  <2>8. HistoryInv'
    <3>1. \A i \in DOMAIN skirmishAIs' : Left(m, i)
      BY <1>1, <1>3, <2>3, OthersTaken DEF IndInv, Left
    <3> QED
      BY <1>3, <2>1, <2>7, <3>1, BroadcastExtends DEF IndInv
  <2>9. LiveAIsHaveLinks'
    BY <2>1, <2>3 DEF IndInv, LiveAIsHaveLinks
  <2> QED
    BY <2>6, <2>8, <2>9 DEF IndInv
<1> QED
  BY <1>4, <1>5

\* Who resigns leads nothing any more, and the AIs stay as they are.
LEMMA ProcessResignPreserves ==
    ASSUME IndInv, NEW p \in Players, ProcessResign(p)
    PROVE  IndInv'
<1>1. Takes(p, "resign")
  BY DEF ProcessResign
<1>2. PICK m \in Messages : m = Head(up[p])
  BY <1>1, TakesFacts DEF IndInv
<1>3. /\ m.type = "resign" /\ seen' = seen /\ up' \in [Players -> Seq(Messages)]
      /\ isDead' = isDead
  BY <1>1, <1>2, TakesFacts DEF IndInv, Takes
<1>4. CASE p \in spectator
  BY <1>1, <1>4, OtherRejectedPreserves DEF ProcessResign
<1>5. CASE p \notin spectator
  <2>1. /\ Broadcast(m) /\ spectator' = spectator \cup {p}
        /\ leader' = [t \in Teams |->
              IF leader[t] = p THEN Successor(spectator', skirmishAIs, t) ELSE leader[t]]
        /\ active' \subseteq active
        /\ UNCHANGED <<skirmishAIs, freeSkirmishAIs, aiClientLinks>>
    BY <1>2, <1>5 DEF ProcessResign
  <2>2. leader' \in Leaders
    <3>1. \A t \in Teams : Successor(spectator', skirmishAIs, t) \in Players \cup {None}
      BY SuccessorType DEF IndInv, Shapes
    <3> QED
      BY <2>1, <3>1 DEF IndInv, Shapes, Leaders
  <2>3. spectator' \in Spectators
    BY <2>1, SpectatorFacts DEF IndInv, Shapes
  <2>4. Shapes'
    BY <1>3, <2>1, <2>2, <2>3, BroadcastType DEF IndInv, Shapes
  <2>5. ASSUME NEW v \in ViewType, Agrees(v, skirmishAIs)
        PROVE  Applicable(v, m) /\ Agrees(Applied(v, m), skirmishAIs')
    <3>1. Applied(v, m).ais = v.ais
      BY <1>3, AIsApplied
    <3> QED
      BY <1>3, <2>1, <2>5, <3>1 DEF Applicable, Agrees
  <2>6. HistoryInv'
    <3>1. \A i \in DOMAIN skirmishAIs' : Left(m, i)
      BY <1>1, <1>3, <2>1, OthersTaken DEF IndInv, Left
    <3> QED
      BY <1>3, <2>1, <2>5, <3>1, BroadcastExtends DEF IndInv
  <2>7. LiveAIsHaveLinks'
    BY <2>1 DEF IndInv, LiveAIsHaveLinks
  <2> QED
    BY <2>4, <2>6, <2>7 DEF IndInv
<1> QED
  BY <1>4, <1>5

\* The server hears of a team's death without telling anybody.
LEMMA ProcessTeamDiedPreserves ==
    ASSUME IndInv, NEW p \in Players, ProcessTeamDied(p)
    PROVE  IndInv'
<1>1. Takes(p, "died") /\ UNCHANGED down
  BY DEF ProcessTeamDied
<1>2. PICK m \in Messages : m = Head(up[p])
  BY <1>1, TakesFacts DEF IndInv
<1>3. /\ m.type = "died" /\ seen' = seen /\ up' \in [Players -> Seq(Messages)]
      /\ isDead' = isDead
  BY <1>1, <1>2, TakesFacts DEF IndInv, Takes
<1>4. CASE p # Host
  BY <1>1, <1>4, OtherRejectedPreserves DEF ProcessTeamDied
<1>5. CASE p = Host
  <2>1. /\ Abandoned(m.team) /\ spectator' = spectator \cup Humans(spectator, m.team)
        /\ UNCHANGED <<skirmishAIs, freeSkirmishAIs, aiClientLinks>>
    BY <1>2, <1>5 DEF ProcessTeamDied
  <2>2. leader' \in Leaders /\ active' \subseteq Teams
    BY <2>1, AbandonedType DEF IndInv
  <2>3. spectator' \in Spectators
    <3>1. Humans(spectator, m.team) \in SUBSET Players
      BY DEF Humans
    <3> QED
      BY <2>1, <3>1, SpectatorFacts DEF IndInv, Shapes
  <2>4. Shapes'
    BY <1>1, <1>3, <2>1, <2>2, <2>3 DEF IndInv, Shapes
  <2>5. HistoryInv'
    <3>1. ReportsKept
      BY <1>1, OthersTaken DEF IndInv, ReportsKept
    <3> QED
      BY <1>1, <1>3, <2>1, <3>1, HistoryKept DEF IndInv
  <2>6. LiveAIsHaveLinks'
    BY <2>1 DEF IndInv, LiveAIsHaveLinks
  <2> QED
    BY <2>4, <2>5, <2>6 DEF IndInv
<1> QED
  BY <1>4, <1>5

\* A new AI takes an id that no AI of the server has. Clients may have one with it, and keep
\* that.
LEMMA ProcessAICreatedPreserves ==
    ASSUME IndInv, NEW p \in Players, ProcessAICreated(p)
    PROVE  IndInv'
<1>1. Takes(p, "created")
  BY DEF ProcessAICreated
<1>2. PICK q \in Messages : q = Head(up[p])
  BY <1>1, TakesFacts DEF IndInv
<1>3. /\ q.type = "created" /\ q.team \in Teams
      /\ seen' = seen /\ up' \in [Players -> Seq(Messages)] /\ isDead' = isDead
  BY <1>1, <1>2, TakesFacts, MessageFacts DEF IndInv, Takes
<1>4. CASE UNCHANGED <<server, down>>
  BY <1>1, <1>2, <1>4, OtherRejectedPreserves
<1>5. CASE ~ UNCHANGED <<server, down>>
  <2>1. /\ freeSkirmishAIs \in Seq(Ids) /\ Last(freeSkirmishAIs) \in Ids
        /\ Front(freeSkirmishAIs) \in Seq(Ids)
    <3>1. freeSkirmishAIs \in Seq(Ids) /\ Len(freeSkirmishAIs) \in Nat \ {0}
      BY <1>5 DEF ProcessAICreated, IndInv, Shapes
    <3>2. Last(freeSkirmishAIs) \in Ids
      BY <3>1 DEF Last
    <3>3. \A k \in 1..(Len(freeSkirmishAIs) - 1) : freeSkirmishAIs[k] \in Ids
      BY <3>1
    <3>4. Front(freeSkirmishAIs) \in Seq(Ids)
      BY <3>1, <3>3 DEF Front
    <3> QED
      BY <3>1, <3>2, <3>4
  <2>2. PICK i \in Ids : i = Last(freeSkirmishAIs)
    BY <2>1
  <2>3. PICK m \in Messages : m = Creates(p, i, q.team)
    BY <1>3, MessageTypes
  <2>4. /\ freeSkirmishAIs' = Front(freeSkirmishAIs)
        /\ Link(p, i)
        /\ skirmishAIs' = [j \in DOMAIN skirmishAIs \cup {i} |->
              IF j = i THEN AI(q.team, p) ELSE skirmishAIs[j]]
        /\ Broadcast(m)
        /\ leader' = [leader EXCEPT ![q.team] = p]
        /\ active' = active \cup {q.team} \/ active' = active
        /\ UNCHANGED spectator
    BY <1>2, <1>5, <2>2, <2>3 DEF ProcessAICreated
  <2>5. m.type = "created" /\ m.id = i /\ m.team = q.team /\ m.player = p
    BY <2>3 DEF Creates
  <2>6. AI(q.team, p) \in Entry /\ AI(q.team, p).status = "alive" /\ AI(q.team, p).host = p
    BY <1>3, NewEntry
  <2>7. /\ DOMAIN skirmishAIs' = DOMAIN skirmishAIs \cup {i}
        /\ skirmishAIs'[i] = AI(q.team, p)
        /\ \A j \in DOMAIN skirmishAIs \ {i} : skirmishAIs'[j] = skirmishAIs[j]
    BY <2>4
  <2>8. skirmishAIs' \in Tables
    BY <2>4, <2>6, TableChanges DEF IndInv, Shapes
  <2>9. leader' \in Leaders /\ active' \subseteq Teams
    BY <1>3, <2>4 DEF IndInv, Shapes, Leaders
  <2>10. /\ aiClientLinks' \in [Players -> SUBSET Ids] /\ i \in aiClientLinks'[p]
         /\ \A r \in Players : aiClientLinks[r] \subseteq aiClientLinks'[r]
    BY <2>4 DEF IndInv, Shapes, Link
  <2>11. Shapes'
    BY <1>3, <2>1, <2>4, <2>8, <2>9, <2>10, BroadcastType DEF IndInv, Shapes
  <2>12. ASSUME NEW v \in ViewType, Agrees(v, skirmishAIs)
         PROVE  Applicable(v, m) /\ Agrees(Applied(v, m), skirmishAIs')
    <3>1. Applied(v, m).ais = Added(v.ais, m, None)
      BY <2>5, AIsApplied
    <3>2. /\ i \in DOMAIN Added(v.ais, m, None)
          /\ \A j \in DOMAIN v.ais : /\ j \in DOMAIN Added(v.ais, m, None)
                                     /\ Added(v.ais, m, None)[j] = v.ais[j]
      BY <2>5 DEF Added
    <3>3. ASSUME NEW j \in DOMAIN skirmishAIs'
          PROVE  /\ j \in DOMAIN Applied(v, m).ais
                 /\ skirmishAIs'[j].status = "reloading"
                       => Applied(v, m).ais[j].status = "reloading"
      <4>1. CASE j = i
        BY <2>6, <2>7, <3>1, <3>2, <4>1
      <4>2. CASE j # i
        <5>1. /\ j \in DOMAIN skirmishAIs /\ skirmishAIs'[j] = skirmishAIs[j]
              /\ j \in DOMAIN v.ais
              /\ skirmishAIs[j].status = "reloading" => v.ais[j].status = "reloading"
          BY <2>7, <2>12, <4>2 DEF Agrees
        <5> QED
          BY <3>1, <3>2, <5>1
      <4> QED
        BY <4>1, <4>2
    <3> QED
      BY <2>5, <3>3 DEF Applicable, Agrees
  <2>13. HistoryInv'
    <3>1. Made(m, i)
      BY <2>5, <2>6, <2>7 DEF Made
    <3>2. ASSUME NEW j \in DOMAIN skirmishAIs', j # i
          PROVE  Left(m, j)
      <4>1. j \in DOMAIN skirmishAIs /\ skirmishAIs'[j] = skirmishAIs[j]
        BY <2>7, <3>2
      <4> QED
        BY <1>1, <2>5, <3>2, <4>1, OthersTaken DEF IndInv, Left
    <3> QED
      BY <1>3, <2>4, <2>12, <3>1, <3>2, BroadcastExtends DEF IndInv
  <2>14. LiveAIsHaveLinks'
    <3>1. ASSUME NEW j \in DOMAIN skirmishAIs'
          PROVE  j \in aiClientLinks'[skirmishAIs'[j].host]
      <4>1. CASE j = i
        BY <2>6, <2>7, <2>10, <4>1
      <4>2. CASE j # i
        <5>1. j \in DOMAIN skirmishAIs /\ skirmishAIs'[j] = skirmishAIs[j]
          BY <2>7, <4>2
        <5>2. skirmishAIs[j].host \in Players /\ j \in aiClientLinks[skirmishAIs[j].host]
          BY <5>1, TableFacts, EntryFacts DEF IndInv, Shapes, LiveAIsHaveLinks
        <5> QED
          BY <2>10, <5>1, <5>2
      <4> QED
        BY <4>1, <4>2
    <3> QED
      BY <3>1 DEF LiveAIsHaveLinks
  <2> QED
    BY <2>11, <2>13, <2>14 DEF IndInv
<1> QED
  BY <1>4, <1>5

\* The server lets an AI go only if the clients do or have others in its place, and the host
\* reports on AIs that it and all others have.
LEMMA ProcessAIStateChangedPreserves ==
    ASSUME IndInv, NEW p \in Players, ProcessAIStateChanged(p)
    PROVE  IndInv'
<1>1. Takes(p, "state")
  BY DEF ProcessAIStateChanged
<1>2. PICK m \in Messages : m = Head(up[p])
  BY <1>1, TakesFacts DEF IndInv
<1>3. /\ m.type = "state" /\ m.id \in Ids /\ m.status \in Status
      /\ seen' = seen /\ up' \in [Players -> Seq(Messages)] /\ isDead' = isDead
  BY <1>1, <1>2, TakesFacts, MessageFacts DEF IndInv, Takes
<1> DEFINE i == m.id
           ai == skirmishAIs[i]
           accepted == i \in DOMAIN skirmishAIs /\ p \in {ai.host, leader[ai.team]}
<1>4. CASE ~ accepted
  <2>1. ASSUME NEW j \in DOMAIN skirmishAIs, NEW s \in Status, skirmishAIs[j].host = p
        PROVE  Head(up[p]) # StateChanged(p, j, s)
    <3>1. StateChanged(p, j, s).id = j
      BY DEF StateChanged
    <3> QED
      BY <1>2, <1>4, <2>1, <3>1
  <2> QED
    BY <1>1, <1>2, <1>4, <2>1, RejectedPreserves DEF ProcessAIStateChanged
<1>5. CASE accepted
  <2>1. /\ i \in DOMAIN skirmishAIs
        /\ Broadcast(m)
        /\ IF m.status = "dead" /\ ai.status # "reloading"
           THEN /\ Release(i)
                /\ aiClientLinks' = [aiClientLinks EXCEPT ![p] = @ \ {i}]
                /\ Abandoned(ai.team) \/ UNCHANGED <<active, leader>>
           ELSE /\ skirmishAIs' = [skirmishAIs EXCEPT ![i].status = m.status]
                /\ UNCHANGED <<active, leader, freeSkirmishAIs, aiClientLinks>>
        /\ UNCHANGED spectator
    BY <1>2, <1>5 DEF ProcessAIStateChanged
  <2>2. /\ skirmishAIs \in Tables /\ ai \in Entry /\ i \in Ids
        /\ \A j \in DOMAIN skirmishAIs : skirmishAIs[j].host \in Players
    BY <1>3, <2>1, TableFacts, EntryFacts DEF IndInv, Shapes
  <2> DEFINE kept(j, s) == \A h \in Players : h = skirmishAIs[j].host => StillSaid(h, j, s)
  <2>3. ASSUME NEW j, NEW s, j # i \/ s # m.status
        PROVE  kept(j, s)
    <3>1. \A h : StateChanged(h, j, s).id = j /\ StateChanged(h, j, s).status = s
      BY DEF StateChanged
    <3> QED
      BY <1>1, <1>2, <2>3, <3>1, TakenKept DEF IndInv
  <2>4. CASE m.status = "dead" /\ ai.status # "reloading"
    <3>1. /\ Release(i) /\ aiClientLinks' = [aiClientLinks EXCEPT ![p] = @ \ {i}]
          /\ Abandoned(ai.team) \/ UNCHANGED <<active, leader>>
      BY <2>1, <2>4
    <3>2. /\ skirmishAIs' \in Tables /\ freeSkirmishAIs' \in Seq(Ids)
          /\ DOMAIN skirmishAIs' = DOMAIN skirmishAIs \ {i}
          /\ \A j \in DOMAIN skirmishAIs' : skirmishAIs'[j] = skirmishAIs[j]
      BY <2>2, <3>1, ReleaseFacts DEF IndInv
    <3>3. leader' \in Leaders /\ active' \subseteq Teams
      BY <3>1, AbandonedType DEF IndInv, Shapes
    <3>4. aiClientLinks \in [Players -> SUBSET Ids] /\ aiClientLinks' \in [Players -> SUBSET Ids]
      BY <3>1 DEF IndInv, Shapes
    <3>5. Shapes'
      BY <1>3, <2>1, <3>2, <3>3, <3>4, BroadcastType DEF IndInv, Shapes
    <3>6. ASSUME NEW v \in ViewType, Agrees(v, skirmishAIs)
          PROVE  Applicable(v, m) /\ Agrees(Applied(v, m), skirmishAIs')
      <4>1. i \in DOMAIN v.ais
        BY <2>1, <3>6 DEF Agrees
      <4>2. Applied(v, m).ais = IF Removed(v.ais[i].status, m.status)
                                THEN [j \in DOMAIN v.ais \ {i} |-> v.ais[j]]
                                ELSE [v.ais EXCEPT ![i].status = m.status]
        BY <1>3, AIsApplied
      <4>3. ASSUME NEW j \in DOMAIN v.ais, j # i
            PROVE  j \in DOMAIN Applied(v, m).ais /\ Applied(v, m).ais[j] = v.ais[j]
        BY <4>2, <4>3
      <4>4. ASSUME NEW j \in DOMAIN skirmishAIs'
            PROVE  /\ j \in DOMAIN Applied(v, m).ais
                   /\ skirmishAIs'[j].status = "reloading"
                         => Applied(v, m).ais[j].status = "reloading"
        <5>1. j \in DOMAIN skirmishAIs /\ j # i /\ skirmishAIs'[j] = skirmishAIs[j]
          BY <3>2
        <5>2. /\ j \in DOMAIN v.ais
              /\ skirmishAIs[j].status = "reloading" => v.ais[j].status = "reloading"
          BY <3>6, <5>1 DEF Agrees
        <5> QED
          BY <4>3, <5>1, <5>2
      <4> QED
        BY <1>3, <4>1, <4>4 DEF Applicable, Agrees
    <3>7. HistoryInv'
      <4>1. ASSUME NEW j \in DOMAIN skirmishAIs'
            PROVE  Left(m, j)
        <5>1. j \in DOMAIN skirmishAIs /\ j # i /\ skirmishAIs'[j] = skirmishAIs[j]
          BY <3>2
        <5> QED
          BY <2>3, <5>1 DEF Left
      <4> QED
        BY <1>3, <2>1, <3>6, <4>1, BroadcastExtends DEF IndInv
    <3>8. LiveAIsHaveLinks'
      <4>1. ASSUME NEW j \in DOMAIN skirmishAIs'
            PROVE  j \in aiClientLinks'[skirmishAIs'[j].host]
        <5>1. j \in DOMAIN skirmishAIs /\ j # i /\ skirmishAIs'[j] = skirmishAIs[j]
          BY <3>2
        <5>2. j \in aiClientLinks[skirmishAIs[j].host] /\ skirmishAIs[j].host \in Players
          BY <2>2, <5>1 DEF IndInv, LiveAIsHaveLinks
        <5> QED
          BY <3>1, <3>4, <5>1, <5>2
      <4> QED
        BY <4>1 DEF LiveAIsHaveLinks
    <3> QED
      BY <3>5, <3>7, <3>8 DEF IndInv
  <2>5. CASE ~ (m.status = "dead" /\ ai.status # "reloading")
    <3>1. /\ skirmishAIs' = [skirmishAIs EXCEPT ![i].status = m.status]
          /\ UNCHANGED <<active, leader, freeSkirmishAIs, aiClientLinks, spectator>>
      BY <2>1, <2>5
    <3>2. skirmishAIs' \in Tables
      BY <1>3, <2>1, <2>2, <3>1, TableChanges
    <3>3. /\ DOMAIN skirmishAIs' = DOMAIN skirmishAIs
          /\ skirmishAIs'[i].host = ai.host /\ skirmishAIs'[i].status = m.status
          /\ \A j \in DOMAIN skirmishAIs \ {i} : skirmishAIs'[j] = skirmishAIs[j]
      <4>1. skirmishAIs'[i] = [ai EXCEPT !.status = m.status]
        BY <2>1, <2>2, <3>1
      <4> QED
        BY <2>1, <2>2, <3>1, <4>1 DEF Entry
    <3>4. Shapes'
      BY <1>3, <2>1, <3>1, <3>2, BroadcastType DEF IndInv, Shapes
    <3>5. ASSUME NEW v \in ViewType, Agrees(v, skirmishAIs)
          PROVE  Applicable(v, m) /\ Agrees(Applied(v, m), skirmishAIs')
      <4>1. i \in DOMAIN v.ais /\ (ai.status = "reloading" => v.ais[i].status = "reloading")
        BY <2>1, <3>5 DEF Agrees
      <4>2. ~ Removed(v.ais[i].status, m.status)
        BY <2>5, <4>1 DEF Removed
      <4>3. Applied(v, m).ais = [v.ais EXCEPT ![i].status = m.status]
        BY <1>3, <4>2, AIsApplied
      <4>4. v.ais \in Tables /\ v.ais[i] \in Entry
        BY <4>1, TableFacts DEF ViewType
      <4>5. /\ DOMAIN Applied(v, m).ais = DOMAIN v.ais
            /\ Applied(v, m).ais[i].status = m.status
            /\ \A j \in DOMAIN v.ais \ {i} : Applied(v, m).ais[j] = v.ais[j]
        <5>1. Applied(v, m).ais[i] = [v.ais[i] EXCEPT !.status = m.status]
          BY <4>1, <4>3, <4>4
        <5> QED
          BY <4>1, <4>3, <4>4, <5>1 DEF Entry
      <4>6. ASSUME NEW j \in DOMAIN skirmishAIs'
            PROVE  /\ j \in DOMAIN Applied(v, m).ais
                   /\ skirmishAIs'[j].status = "reloading"
                         => Applied(v, m).ais[j].status = "reloading"
        <5>1. CASE j = i
          BY <3>3, <4>1, <4>5, <5>1
        <5>2. CASE j # i
          BY <3>3, <3>5, <4>5, <5>2 DEF Agrees
        <5> QED
          BY <5>1, <5>2
      <4> QED
        BY <1>3, <4>1, <4>6 DEF Applicable, Agrees
    <3>6. HistoryInv'
      <4>1. Told(m, i)
        BY <1>3, <2>1, <2>3, <2>5, <3>3 DEF Told
      <4>2. ASSUME NEW j \in DOMAIN skirmishAIs', j # i
            PROVE  Left(m, j)
        BY <2>3, <3>3, <4>2 DEF Left
      <4> QED
        BY <1>3, <2>1, <3>5, <4>1, <4>2, BroadcastExtends DEF IndInv
    <3>7. LiveAIsHaveLinks'
      BY <2>1, <3>1, <3>3 DEF IndInv, LiveAIsHaveLinks
    <3> QED
      BY <3>4, <3>6, <3>7 DEF IndInv
  <2> QED
    BY <2>4, <2>5
<1> QED
  BY <1>4, <1>5

-----------------------------------------------------------------------------
(* Theorems                                                                *)

\* Every step keeps the invariant.
LEMMA NextPreserves == IndInv /\ [Next]_vars => IndInv'
<1> SUFFICES ASSUME IndInv, [Next]_vars PROVE IndInv'
  OBVIOUS
<1>1. ASSUME NEW p \in Players, Spectate(p)
      PROVE  IndInv'
  BY <1>1, MessageTypes, PlainRequestPreserves DEF Spectate
<1>2. ASSUME NEW p \in Players, NEW t \in Teams,
             AIKill(p, t) \/ AIReload(p, t) \/ AIControl(p, t)
      PROVE  IndInv'
  BY <1>2, RequestsPreserve
<1>3. ASSUME NEW p \in Players, NEW to \in Teams, GiveOwnTeam(p, to)
      PROVE  IndInv'
  BY <1>3, RequestsPreserve
<1>4. ASSUME NEW p \in Players, NEW to \in Teams, NEW t \in Teams, AIKillShare(p, t, to)
      PROVE  IndInv'
  BY <1>4, RequestsPreserve
<1>5. ASSUME NEW p \in Players, ProcessGiveAway(p)
      PROVE  IndInv'
  BY <1>5, ProcessGiveAwayPreserves
<1>6. ASSUME NEW p \in Players, ProcessResign(p)
      PROVE  IndInv'
  BY <1>6, ProcessResignPreserves
<1>7. ASSUME NEW p \in Players, ProcessTeamDied(p)
      PROVE  IndInv'
  BY <1>7, ProcessTeamDiedPreserves
<1>8. ASSUME NEW p \in Players, ProcessAICreated(p)
      PROVE  IndInv'
  BY <1>8, ProcessAICreatedPreserves
<1>9. ASSUME NEW p \in Players, ProcessAIStateChanged(p)
      PROVE  IndInv'
  BY <1>9, ProcessAIStateChangedPreserves
<1>10. ASSUME NEW p \in Players, ClientReadNet(p)
       PROVE  IndInv'
  BY <1>10, ClientReadNetPreserves
<1>11. ASSUME NEW t \in Teams, TeamDies(t)
       PROVE  IndInv'
  BY <1>11, TeamDiesPreserves
<1>12. CASE UNCHANGED vars
  <2>1. Shapes'
    BY <1>12 DEF IndInv, Shapes, vars, server
  <2>2. HistoryInv'
    <3>1. ReportsKept
      BY <1>12 DEF ReportsKept, StillSaid, Said, vars
    <3> QED
      BY <1>12, <3>1, HistoryKept DEF IndInv, vars, server
  <2>3. LiveAIsHaveLinks'
    BY <1>12 DEF IndInv, LiveAIsHaveLinks, vars, server
  <2> QED
    BY <2>1, <2>2, <2>3 DEF IndInv
<1> QED
  BY <1>1, <1>2, <1>3, <1>4, <1>5, <1>6, <1>7, <1>8, <1>9, <1>10, <1>11, <1>12 DEF Next

\* There is always one history that all clients are in: what the server broadcasts makes the
\* same of each copy (ClientReadNet).
THEOREM Invariance == Spec => []IndInv
<1>1. Init => IndInv
  BY InitIndInv
<1>2. IndInv /\ [Next]_vars => IndInv'
  BY NextPreserves
<1> QED
  BY <1>1, <1>2, PTL DEF Spec

\* The tables of the server and of the clients name teams, players and ids that exist: the
\* vectors that GameServer.cpp and SkirmishAIHandler.cpp index with them have that place.
THEOREM TypeCorrect == Spec => []TypeOK
<1>1. ASSUME Shapes
      PROVE  TypeOK
  <2>1. /\ spectator \subseteq Players /\ active \subseteq Teams /\ isDead \subseteq Teams
        /\ leader \in [Teams -> Players \cup {None}]
    BY <1>1, SpectatorFacts DEF Shapes, Leaders
  <2>2. /\ DOMAIN skirmishAIs \subseteq Ids
        /\ \A i \in DOMAIN skirmishAIs : skirmishAIs[i] \in Entry
    BY <1>1, TableFacts DEF Shapes
  <2>3. ToSet(freeSkirmishAIs) \subseteq Ids
    <3>1. /\ freeSkirmishAIs \in Seq(Ids) /\ DOMAIN freeSkirmishAIs = 1..Len(freeSkirmishAIs)
          /\ \A k \in 1..Len(freeSkirmishAIs) : freeSkirmishAIs[k] \in Ids
      BY <1>1 DEF Shapes
    <3> QED
      BY <3>1 DEF ToSet
  <2>4. ASSUME NEW p \in Players
        PROVE  /\ seen[p].spectator \subseteq Players /\ seen[p].dead \subseteq Teams
               /\ seen[p].creating \subseteq Teams /\ seen[p].running \subseteq Ids
               /\ seen[p].leader \in [Teams -> Players \cup {None}]
               /\ DOMAIN seen[p].ais \subseteq Ids
    <3>1. seen[p] \in CopyType
      BY <1>1 DEF Shapes
    <3>2. DOMAIN seen[p].ais \subseteq Ids
      BY <3>1, ViewFacts, TableFacts
    <3>3. seen[p].spectator \subseteq Players
      BY <3>1, ViewFacts, SpectatorFacts
    <3> QED
      BY <3>1, <3>2, <3>3, ViewFacts DEF Leaders
  <2> QED
    BY <1>1, <2>1, <2>2, <2>3, <2>4 DEF TypeOK, Shapes, Entry
<1>2. IndInv => TypeOK
  BY <1>1 DEF IndInv
<1> QED
  BY <1>2, Invariance, PTL

\* Clients that have read the same messages agree on spectators, leaders, dead teams and AIs
\* (PlayerHandler, TeamHandler and SkirmishAIHandler, as NetCommands.cpp changes them).
THEOREM Agreement == Spec => []CopiesAgree
<1>1. ASSUME Shapes, HistoryInv
      PROVE  CopiesAgree
  <2>1. PICK log, views : OneHistory(log, views)
    BY <1>1 DEF HistoryInv
  <2>2. ASSUME NEW p \in Players, NEW q \in Players, Len(down[p]) = Len(down[q])
        PROVE  /\ seen[p].spectator = seen[q].spectator /\ seen[p].leader = seen[q].leader
               /\ seen[p].ais = seen[q].ais /\ seen[p].dead = seen[q].dead
    <3>1. Read(log, p) = Read(log, q)
      BY <2>2 DEF Read
    <3>2. View(seen[p]) = View(seen[q])
      BY <2>1, <3>1 DEF OneHistory, Follows
    <3> QED
      BY <3>2 DEF View
  <2> QED
    BY <2>2 DEF CopiesAgree
<1>2. IndInv => CopiesAgree
  BY <1>1 DEF IndInv
<1> QED
  BY <1>2, Invariance, PTL

\* The AI that an AI_STATE_CHANGED is about is there when ClientReadNet asks GetSkirmishAI for
\* it and dereferences what comes, at any place of the history.
THEOREM AIFound == Spec => []StateChangeFindsAI
<1>1. ASSUME Shapes, HistoryInv, NEW p \in Players, down[p] # <<>>
      PROVE  ~ NoSuchAI(p)
  <2>1. PICK log, views : OneHistory(log, views)
    BY <1>1 DEF HistoryInv
  <2>2. Applicable(View(seen[p]), Head(down[p]))
    BY <1>1, <2>1, NextApplicable
  <2> QED
    BY <2>2 DEF Applicable, NoSuchAI, View
<1>2. IndInv => StateChangeFindsAI
  BY <1>1 DEF IndInv, StateChangeFindsAI
<1> QED
  BY <1>2, Invariance, PTL

\* Once nothing is on the way, each AI of the server runs on its host and is alive, whatever was
\* asked for and answered (ProcessPacket, EngineOutHandler), unless its id was given away with
\* another AI that clients still have.
THEOREM AlwaysObeyed == Spec => []AliveRuns
<1>1. ASSUME Shapes, HistoryInv
      PROVE  AliveRuns
  <2>1. PICK log, views : OneHistory(log, views) /\ Obeyed(log, views)
    BY <1>1 DEF HistoryInv
  <2>2. ASSUME \A p \in Players : down[p] = <<>> /\ up[p] = <<>>, NEW i \in DOMAIN skirmishAIs
        PROVE  /\ i \in seen[skirmishAIs[i].host].running
               /\ seen[skirmishAIs[i].host].ais[i].host = skirmishAIs[i].host
                      => skirmishAIs[i].status = "alive"
    <3>1. skirmishAIs[i].host \in Players
      BY <1>1, <2>2, TableFacts, EntryFacts DEF Shapes
    <3>2. PICK h \in Players : h = skirmishAIs[i].host
      BY <3>1
    <3>3. Follows(log, views, h) /\ Len(log) \in Nat /\ down[h] = <<>> /\ up[h] = <<>>
      BY <2>1, <2>2 DEF OneHistory, Replay
    <3>4. Read(log, h) = Len(log)
      BY <3>3 DEF Read
    <3>5. Unread(log, h) = {}
      BY <3>3, <3>4 DEF Unread
    <3>6. seen[h].ais = views[Len(log)].ais
      BY <3>3, <3>4 DEF Follows, View
    <3>7. ~ Said(h, i, "dead") /\ ~ Said(h, i, "alive")
      BY <3>3 DEF Said
    <3>8. ~ WillSayDead(log, views, h, i) /\ ~ WillSayAlive(log, views, h, i)
      BY <3>5, <3>7 DEF WillSayDead, WillSayAlive
    <3>9. Obeys(log, views, i)
      BY <2>1, <2>2 DEF Obeyed
    <3>10. /\ WillRun(log, views, h, i)
           /\ seen[h].ais[i].host = h => skirmishAIs[i].status = "alive"
      BY <3>2, <3>6, <3>8, <3>9 DEF Obeys
    <3>11. i \in seen[h].running
      BY <3>5, <3>10 DEF WillRun
    <3> QED
      BY <3>2, <3>10, <3>11
  <2> QED
    BY <2>2 DEF AliveRuns
<1>2. IndInv => AliveRuns
  BY <1>1 DEF IndInv
<1> QED
  BY <1>2, Invariance, PTL

\* The AIs in use have a link on their host's seat (aiClientLinks), although the link that is
\* erased is that of who reports the AI dead.
THEOREM AIsLinked == Spec => []LiveAIsHaveLinks
<1>1. IndInv => LiveAIsHaveLinks
  BY DEF IndInv
<1> QED
  BY <1>1, Invariance, PTL
=============================================================================
