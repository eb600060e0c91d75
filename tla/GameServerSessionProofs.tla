---------------------- MODULE GameServerSessionProofs ----------------------
(***************************************************************************)
(* Proofs about GameServerSession for any start script, any names, and any *)
(* number of connections and broadcasts.                                   *)
(***************************************************************************)
EXTENDS GameServerSession, SequenceTheorems, TLAPS

Types ==
    {"GameData", "SetPlayerNum", "JoinTeam", "CreateNewPlayer", "PlayerName", "PlayerLeft",
     "StartPos", "StartPlaying", "StartGame", "Message", "Quit"}

Entry == [type : Types, seat : Nat]

Link == [name : Names, seat : Nat, adopted : BOOLEAN,
         header : Seq(Entry), log : Seq(Entry), rest : Seq(Entry)]

States == {"UNCONNECTED", "CONNECTED", "INGAME", "DISCONNECTING", "DISCONNECTED"}

Participant ==
    [name : Names \cup {Anonymous}, spectator : BOOLEAN, team : Nat, isMidgameJoin : BOOLEAN,
     readyToStart : BOOLEAN, loopback : BOOLEAN, client : BOOLEAN, myState : States,
     clientLink : Nat]

\* The types, those of the sequences included
Shapes ==
    /\ players \in Seq(Participant) /\ links \in Seq(Link)
    /\ history \in Seq(Entry) /\ packetCache \in Seq(Entry)
    /\ allowSpecJoin \in BOOLEAN /\ reconnectTimeout \in BOOLEAN
    /\ canReconnect \in BOOLEAN /\ accepting \in BOOLEAN /\ readyTime \in BOOLEAN
    /\ gameHasStarted \in BOOLEAN /\ quitServer \in BOOLEAN
    /\ teams \subseteq Nat
    /\ DOMAIN Script \subseteq DOMAIN players

\* As long as somebody may come late, the cache has everything.
CacheInv ==
    /\ Cached(canReconnect, gameHasStarted) => packetCache = history
    /\ gameHasStarted /\ accepting => canReconnect \/ allowSpecJoin

Mentions(s, m) == \E k \in DOMAIN s : s[k] = m

\* No seat that is not in the start script is mentioned before it is introduced.
Introduces(s) ==
    \A k \in DOMAIN s : s[k].seat > Len(Script) =>
        \E j \in 1..k : s[j] = Msg("CreateNewPlayer", s[k].seat)

HistoryInv ==
    /\ Introduces(history)
    /\ \A k \in DOMAIN history : history[k].seat <= Len(players)

\* Whoever reads s takes i to be in the game.
Tells(s, i) ==
    \E k \in DOMAIN s :
        /\ s[k] = Msg("PlayerName", i)
        /\ \A j \in DOMAIN s : j > k => s[j] # Msg("PlayerLeft", i)

\* SendData sends to link l for one of the seats pl.
Spoken(pl, l) == \E i \in DOMAIN pl : pl[i].clientLink = l /\ pl[i].myState # "DISCONNECTING"

\* With seats pl and broadcasts h: a link has got broadcasts in order from the first, and all
\* of them while it is its client's own and somebody sends to it. From the Quit on it has
\* got nothing more, unless it was handed to a second client.
StreamInv(lk, pl, h, l) ==
    /\ IsPrefix(lk[l].log, h)
    /\ IF lk[l].adopted THEN lk[l].rest # <<>>
                        ELSE lk[l].rest \in {<<>>, <<Msg("Quit", lk[l].seat)>>}
    /\ Spoken(pl, l) /\ ~lk[l].adopted => lk[l].log = h /\ lk[l].rest = <<>>

HeaderInv(l) ==
    /\ links[l].seat \in DOMAIN players
    /\ links[l].header = Header(links[l].seat, players[links[l].seat])

SeatInv(i) ==
    /\ players[i].loopback <=> TakesPart(i)
    /\ players[i].clientLink # NoLink <=>
          players[i].myState \in {"CONNECTED", "INGAME", "DISCONNECTING"}
    /\ players[i].clientLink # NoLink =>
          players[i].clientLink \in DOMAIN links /\ links[players[i].clientLink].seat = i
    /\ players[i].myState = "DISCONNECTING" => links[players[i].clientLink].rest # <<>>
    /\ players[i].myState = "INGAME" <=> Tells(history, i)
    /\ players[i].isMidgameJoin <=> i > Len(Script)
    /\ i > Len(Script) => Mentions(history, Msg("CreateNewPlayer", i))

LinkInv(l) == StreamInv(links, players, history, l) /\ HeaderInv(l)

IndInv ==
    /\ Shapes
    /\ CacheInv
    /\ HistoryInv
    /\ \A i \in DOMAIN players : SeatInv(i)
    /\ \A l \in DOMAIN links : LinkInv(l)

-----------------------------------------------------------------------------
(* Sequences of messages                                                   *)

\* The start script is a sequence of seats.
LEMMA ScriptFacts ==
    /\ Len(Script) \in Nat /\ DOMAIN Script = 1..Len(Script)
    /\ \A i \in DOMAIN Script : /\ Script[i].name \in Names
                                /\ Script[i].spectator \in BOOLEAN
                                /\ Script[i].team \in Nat
<1> DEFINE Seats == [name : Names, spectator : BOOLEAN, team : Nat]
<1>1. Script \in Seq(Seats)
  BY SessionAssumption
<1>2. \A p \in Seats : p.name \in Names /\ p.spectator \in BOOLEAN /\ p.team \in Nat
  OBVIOUS
<1> HIDE DEF Seats
<1>3. Len(Script) \in Nat /\ DOMAIN Script = 1..Len(Script) /\ \A i \in DOMAIN Script : Script[i] \in Seats
  BY <1>1
<1> QED
  BY <1>2, <1>3

\* What a message says
LEMMA MsgFacts ==
    ASSUME NEW type \in Types, NEW i \in Nat
    PROVE  /\ Msg(type, i) \in Entry
           /\ Msg(type, i).type = type /\ Msg(type, i).seat = i
           /\ <<Msg(type, i)>> \in Seq(Entry) /\ <<Msg(type, i)>> # <<>>
           /\ Len(<<Msg(type, i)>>) = 1 /\ <<Msg(type, i)>>[1] = Msg(type, i)
  BY DEF Msg, Entry

\* The elements of two sequences one after the other
LEMMA ConcatFacts ==
    ASSUME NEW S, NEW a \in Seq(S), NEW b \in Seq(S)
    PROVE  /\ a \o b \in Seq(S) /\ Len(a \o b) = Len(a) + Len(b)
           /\ DOMAIN (a \o b) = 1..(Len(a) + Len(b))
           /\ \A k \in 1..Len(a) : (a \o b)[k] = a[k]
           /\ \A k \in 1..Len(b) : (a \o b)[Len(a) + k] = b[k]
           /\ \A k \in (Len(a) + 1)..(Len(a) + Len(b)) : k - Len(a) \in 1..Len(b) /\ (a \o b)[k] = b[k - Len(a)]
  OBVIOUS

\* IsPrefix, element by element
LEMMA PrefixFacts ==
    ASSUME NEW S, NEW a \in Seq(S), NEW b \in Seq(S)
    PROVE  IsPrefix(a, b) <=> Len(a) <= Len(b) /\ \A k \in 1..Len(a) : a[k] = b[k]
<1>1. Len(a) \in Nat /\ Len(b) \in Nat /\ a = [k \in 1..Len(a) |-> a[k]]
  OBVIOUS
<1>2. CASE Len(a) <= Len(b)
  <2>1. SubSeq(b, 1, Len(a)) \in Seq(S) /\ Len(SubSeq(b, 1, Len(a))) = Len(a)
        /\ \A k \in 1..Len(a) : SubSeq(b, 1, Len(a))[k] = b[k]
    BY <1>1, <1>2
  <2>2. (\A k \in 1..Len(a) : a[k] = b[k]) <=> a = SubSeq(b, 1, Len(a))
    BY <2>1, <1>1, SeqEqual
  <2> QED
    BY <2>2, <1>2 DEF IsPrefix
<1>3. CASE ~(Len(a) <= Len(b))
  BY <1>3 DEF IsPrefix
<1> QED
  BY <1>2, <1>3

\* A sequence is a prefix of itself and of what continues it.
LEMMA PrefixGrows ==
    ASSUME NEW S, NEW a \in Seq(S), NEW b \in Seq(S), NEW c \in Seq(S), IsPrefix(a, b)
    PROVE  IsPrefix(a, b \o c) /\ IsPrefix(b, b \o c) /\ IsPrefix(b, b)
<1> DEFINE d == b \o c
<1>1. d \in Seq(S)
  OBVIOUS
<1>2. Len(a) <= Len(b) /\ \A k \in 1..Len(a) : a[k] = b[k]
  BY PrefixFacts
<1>3. Len(a) \in Nat /\ Len(b) \in Nat /\ Len(c) \in Nat
  OBVIOUS
<1>4. Len(d) = Len(b) + Len(c) /\ \A k \in 1..Len(b) : d[k] = b[k]
  OBVIOUS
<1> HIDE DEF d
<1>5. IsPrefix(a, d)
  <2>1. Len(a) <= Len(d) /\ \A k \in 1..Len(a) : a[k] = d[k]
    BY <1>2, <1>3, <1>4
  <2> QED
    BY <1>1, <2>1, PrefixFacts
<1>6. IsPrefix(b, d)
  <2>1. Len(b) <= Len(d) /\ \A k \in 1..Len(b) : b[k] = d[k]
    BY <1>3, <1>4
  <2> QED
    BY <1>1, <2>1, PrefixFacts
<1>7. IsPrefix(b, b)
  BY <1>3, PrefixFacts
<1> QED
  BY <1>5, <1>6, <1>7 DEF d

\* Of what is mentioned, whatever is added, nothing is taken back.
LEMMA MentionsConcat ==
    ASSUME NEW a \in Seq(Entry), NEW b \in Seq(Entry), NEW m
    PROVE  Mentions(a \o b, m) <=> Mentions(a, m) \/ Mentions(b, m)
<1>1. DOMAIN a = 1..Len(a) /\ DOMAIN b = 1..Len(b) /\ Len(a) \in Nat /\ Len(b) \in Nat
  OBVIOUS
<1>2. DOMAIN (a \o b) = 1..(Len(a) + Len(b))
      /\ (\A k \in 1..Len(a) : (a \o b)[k] = a[k])
      /\ (\A k \in 1..Len(b) : (a \o b)[Len(a) + k] = b[k])
      /\ \A k \in (Len(a) + 1)..(Len(a) + Len(b)) : k - Len(a) \in 1..Len(b) /\ (a \o b)[k] = b[k - Len(a)]
  BY ConcatFacts
<1>3. ASSUME Mentions(a \o b, m)
      PROVE  Mentions(a, m) \/ Mentions(b, m)
  <2>1. PICK k \in 1..(Len(a) + Len(b)) : (a \o b)[k] = m
    BY <1>2, <1>3 DEF Mentions
  <2>2. CASE k <= Len(a)
    BY <1>1, <1>2, <2>1, <2>2 DEF Mentions
  <2>3. CASE k > Len(a)
    <3>1. k \in (Len(a) + 1)..(Len(a) + Len(b))
      BY <1>1, <2>1, <2>3
    <3>2. k - Len(a) \in 1..Len(b) /\ b[k - Len(a)] = m
      BY <1>2, <2>1, <3>1
    <3> QED
      BY <1>1, <3>2 DEF Mentions
  <2> QED
    BY <1>1, <2>1, <2>2, <2>3
<1>4. Mentions(a, m) => Mentions(a \o b, m)
  BY <1>1, <1>2 DEF Mentions
<1>5. ASSUME Mentions(b, m)
      PROVE  Mentions(a \o b, m)
  <2>1. PICK k \in 1..Len(b) : b[k] = m
    BY <1>1, <1>5 DEF Mentions
  <2>2. Len(a) + k \in 1..(Len(a) + Len(b)) /\ (a \o b)[Len(a) + k] = m
    BY <1>1, <1>2, <2>1
  <2> QED
    BY <1>2, <2>2 DEF Mentions
<1> QED
  BY <1>3, <1>4, <1>5

\* Messages can be added that mention seats already introduced.
LEMMA IntroducesConcat ==
    ASSUME NEW a \in Seq(Entry), NEW b \in Seq(Entry), Introduces(a),
           \A k \in DOMAIN b : b[k].seat > Len(Script) =>
               \/ Mentions(a, Msg("CreateNewPlayer", b[k].seat))
               \/ \E j \in 1..k : b[j] = Msg("CreateNewPlayer", b[k].seat)
    PROVE  Introduces(a \o b)
<1> DEFINE c == a \o b
<1>1. DOMAIN a = 1..Len(a) /\ DOMAIN b = 1..Len(b) /\ Len(a) \in Nat /\ Len(b) \in Nat
  OBVIOUS
<1>2. DOMAIN c = 1..(Len(a) + Len(b))
      /\ (\A k \in 1..Len(a) : c[k] = a[k])
      /\ (\A k \in 1..Len(b) : c[Len(a) + k] = b[k])
      /\ \A k \in (Len(a) + 1)..(Len(a) + Len(b)) : k - Len(a) \in 1..Len(b) /\ c[k] = b[k - Len(a)]
  BY ConcatFacts
<1> HIDE DEF c
<1>3. SUFFICES ASSUME NEW k \in 1..(Len(a) + Len(b)), c[k].seat > Len(Script)
               PROVE  \E j \in 1..k : c[j] = Msg("CreateNewPlayer", c[k].seat)
  BY <1>2 DEF Introduces, c
<1>4. CASE k <= Len(a)
  <2>1. k \in 1..Len(a) /\ c[k] = a[k]
    BY <1>1, <1>2, <1>3, <1>4
  <2>2. PICK j \in 1..k : a[j] = Msg("CreateNewPlayer", a[k].seat)
    BY <1>1, <1>3, <2>1 DEF Introduces
  <2>3. j \in 1..Len(a)
    BY <1>1, <2>1
  <2> QED
    BY <1>2, <2>1, <2>2, <2>3
<1>5. CASE k > Len(a)
  <2> DEFINE n == k - Len(a)
  <2>1. n \in 1..Len(b) /\ c[k] = b[n]
    <3>1. k \in (Len(a) + 1)..(Len(a) + Len(b))
      BY <1>1, <1>3, <1>5
    <3> QED
      BY <1>2, <3>1
  <2>2. CASE Mentions(a, Msg("CreateNewPlayer", b[n].seat))
    <3>1. PICK j \in 1..Len(a) : a[j] = Msg("CreateNewPlayer", b[n].seat)
      BY <1>1, <2>2 DEF Mentions
    <3>2. j \in 1..k
      BY <1>1, <1>5, <3>1
    <3> QED
      BY <1>2, <2>1, <3>1, <3>2
  <2>3. CASE \E j \in 1..n : b[j] = Msg("CreateNewPlayer", b[n].seat)
    <3>1. PICK j \in 1..n : b[j] = Msg("CreateNewPlayer", b[n].seat)
      BY <2>3
    <3>2. Len(a) + j \in 1..k /\ j \in 1..Len(b)
      BY <1>1, <1>5, <2>1, <3>1
    <3>3. c[Len(a) + j] = b[j]
      BY <1>2, <3>2
    <3> QED
      BY <2>1, <3>1, <3>2, <3>3
  <2> QED
    BY <1>1, <1>3, <2>1, <2>2, <2>3
<1> QED
  BY <1>1, <1>3, <1>4, <1>5

\* What one more message tells
LEMMA TellsNext ==
    ASSUME NEW a \in Seq(Entry), NEW m \in Entry, NEW i \in Nat
    PROVE  Tells(a \o <<m>>, i) <=>
               m = Msg("PlayerName", i) \/ (Tells(a, i) /\ m # Msg("PlayerLeft", i))
<1> DEFINE c == a \o <<m>>
           L == Len(a)
<1>1. DOMAIN a = 1..L /\ L \in Nat
  OBVIOUS
<1>2. DOMAIN c = 1..(L + 1) /\ (\A k \in 1..L : c[k] = a[k]) /\ c[L + 1] = m
  OBVIOUS
<1>3. Msg("PlayerName", i) # Msg("PlayerLeft", i)
  BY DEF Msg
<1> HIDE DEF c, L
<1>4. ASSUME Tells(c, i), m # Msg("PlayerName", i)
      PROVE  Tells(a, i) /\ m # Msg("PlayerLeft", i)
  <2>1. PICK k \in 1..(L + 1) : /\ c[k] = Msg("PlayerName", i)
                                /\ \A j \in 1..(L + 1) : j > k => c[j] # Msg("PlayerLeft", i)
    BY <1>2, <1>4 DEF Tells
  <2>2. k \in 1..L /\ L + 1 \in 1..(L + 1) /\ L + 1 > k
    BY <1>1, <1>2, <1>4, <2>1
  <2>3. m # Msg("PlayerLeft", i)
    BY <1>2, <2>1, <2>2
  <2>4. \A j \in 1..L : j \in 1..(L + 1) /\ c[j] = a[j]
    BY <1>1, <1>2
  <2>5. Tells(a, i)
    BY <1>1, <2>1, <2>2, <2>4 DEF Tells
  <2> QED
    BY <2>3, <2>5
<1>5. ASSUME m = Msg("PlayerName", i)
      PROVE  Tells(c, i)
  <2>1. L + 1 \in 1..(L + 1) /\ \A j \in 1..(L + 1) : ~(j > L + 1)
    BY <1>1
  <2> QED
    BY <1>2, <1>5, <2>1 DEF Tells
<1>6. ASSUME Tells(a, i), m # Msg("PlayerLeft", i)
      PROVE  Tells(c, i)
  <2>1. PICK k \in 1..L : /\ a[k] = Msg("PlayerName", i)
                          /\ \A j \in 1..L : j > k => a[j] # Msg("PlayerLeft", i)
    BY <1>1, <1>6 DEF Tells
  <2>2. \A j \in 1..(L + 1) : j \in 1..L \/ j = L + 1
    BY <1>1
  <2>3. k \in 1..(L + 1) /\ c[k] = Msg("PlayerName", i)
    BY <1>1, <1>2, <2>1
  <2>4. \A j \in 1..(L + 1) : j > k => c[j] # Msg("PlayerLeft", i)
    BY <1>2, <1>6, <2>1, <2>2
  <2> QED
    BY <1>2, <2>3, <2>4 DEF Tells
<1> QED
  BY <1>4, <1>5, <1>6 DEF c
-----------------------------------------------------------------------------
(* Sending                                                                 *)

\* The fields of the links
LEMMA LinkFacts ==
    ASSUME NEW lk \in Seq(Link)
    PROVE  /\ Len(lk) \in Nat /\ DOMAIN lk = 1..Len(lk)
           /\ \A l \in DOMAIN lk :
                /\ lk[l] \in Link
                /\ lk[l].name \in Names /\ lk[l].seat \in Nat /\ lk[l].adopted \in BOOLEAN
                /\ lk[l].header \in Seq(Entry) /\ lk[l].log \in Seq(Entry) /\ lk[l].rest \in Seq(Entry)
<1>1. Len(lk) \in Nat /\ DOMAIN lk = 1..Len(lk) /\ \A l \in DOMAIN lk : lk[l] \in Link
  OBVIOUS
<1>2. \A link \in Link :
         /\ link.name \in Names /\ link.seat \in Nat /\ link.adopted \in BOOLEAN
         /\ link.header \in Seq(Entry) /\ link.log \in Seq(Entry) /\ link.rest \in Seq(Entry)
  BY DEF Link
<1> QED
  BY <1>1, <1>2

\* A link gets ms, in its log or after its Quit, if it is spoken to.
Receives(old, new, ms, spoken) ==
    /\ new.name = old.name /\ new.seat = old.seat
    /\ new.adopted = old.adopted /\ new.header = old.header
    /\ spoken /\ old.rest = <<>> => new.log = old.log \o ms /\ new.rest = <<>>
    /\ spoken /\ old.rest # <<>> => new.log = old.log /\ new.rest = old.rest \o ms
    /\ ~spoken => new.log = old.log /\ new.rest = old.rest

\* SendData adds ms to each link spoken to.
LEMMA SentFacts ==
    ASSUME NEW lk \in Seq(Link), NEW pl, NEW ms \in Seq(Entry)
    PROVE  /\ Sent(lk, pl, ms) \in Seq(Link)
           /\ Len(Sent(lk, pl, ms)) = Len(lk) /\ DOMAIN Sent(lk, pl, ms) = DOMAIN lk
           /\ \A l \in DOMAIN lk : Receives(lk[l], Sent(lk, pl, ms)[l], ms, Spoken(pl, l))
<1> DEFINE sent == Sent(lk, pl, ms)
<1>1. Len(lk) \in Nat /\ DOMAIN lk = 1..Len(lk)
  OBVIOUS
<1>2. sent = [l \in 1..Len(lk) |-> IF Spoken(pl, l)
                THEN IF lk[l].rest = <<>> THEN [lk[l] EXCEPT !.log = @ \o ms]
                                          ELSE [lk[l] EXCEPT !.rest = @ \o ms]
                ELSE lk[l]]
  BY <1>1 DEF Sent, Spoken
<1> HIDE DEF sent
<1>3. ASSUME NEW l \in 1..Len(lk)
      PROVE  /\ sent[l] \in Link
             /\ Receives(lk[l], sent[l], ms, Spoken(pl, l))
  <2>1. lk[l] \in Link /\ lk[l].log \in Seq(Entry) /\ lk[l].rest \in Seq(Entry)
    BY <1>1, LinkFacts
  <2>2. lk[l].log \o ms \in Seq(Entry) /\ lk[l].rest \o ms \in Seq(Entry)
    BY <2>1
  <2>3. CASE ~Spoken(pl, l)
    BY <1>2, <2>1, <2>3 DEF Receives
  <2>4. CASE Spoken(pl, l) /\ lk[l].rest = <<>>
    <3>1. sent[l] = [lk[l] EXCEPT !.log = @ \o ms]
      BY <1>2, <2>4
    <3> QED
      BY <2>1, <2>2, <2>4, <3>1 DEF Link, Receives
  <2>5. CASE Spoken(pl, l) /\ lk[l].rest # <<>>
    <3>1. sent[l] = [lk[l] EXCEPT !.rest = @ \o ms]
      BY <1>2, <2>5
    <3> QED
      BY <2>1, <2>2, <2>5, <3>1 DEF Link, Receives
  <2> QED
    BY <2>3, <2>4, <2>5
<1>4. sent \in Seq(Link) /\ Len(sent) = Len(lk) /\ DOMAIN sent = 1..Len(lk)
  <2>2. sent = [l \in 1..Len(lk) |-> sent[l]]
    BY <1>2
  <2>3. sent \in Seq(Link)
    BY <1>1, <1>3, <2>2
  <2>4. DOMAIN sent = 1..Len(lk)
    BY <1>2
  <2> QED
    BY <1>1, <2>3, <2>4
<1> QED
  BY <1>1, <1>3, <1>4 DEF sent

\* Sending keeps the streams complete, and ends or continues none that is closed.
LEMMA SentStreams ==
    ASSUME NEW lk \in Seq(Link), NEW pl, NEW h \in Seq(Entry), NEW ms \in Seq(Entry),
           NEW l \in DOMAIN lk, StreamInv(lk, pl, h, l)
    PROVE  /\ StreamInv(Sent(lk, pl, ms), pl, h \o ms, l)
           /\ ~(Spoken(pl, l) /\ ~lk[l].adopted) => Sent(lk, pl, ms)[l].log = lk[l].log
           /\ lk[l].rest # <<>> => Sent(lk, pl, ms)[l].rest # <<>>
           /\ ~lk[l].adopted => Sent(lk, pl, ms)[l].rest = lk[l].rest
<1> DEFINE sent == Sent(lk, pl, ms)
           s == sent[l]
<1>1. /\ s.seat = lk[l].seat /\ s.adopted = lk[l].adopted
      /\ Spoken(pl, l) /\ lk[l].rest = <<>> => s.log = lk[l].log \o ms /\ s.rest = <<>>
      /\ Spoken(pl, l) /\ lk[l].rest # <<>> => s.log = lk[l].log /\ s.rest = lk[l].rest \o ms
      /\ ~Spoken(pl, l) => s.log = lk[l].log /\ s.rest = lk[l].rest
  <2>1. Receives(lk[l], s, ms, Spoken(pl, l))
    BY SentFacts
  <2> HIDE DEF s
  <2> QED
    BY <2>1 DEF Receives
<1>2. /\ IsPrefix(lk[l].log, h)
      /\ lk[l].adopted => lk[l].rest # <<>>
      /\ ~lk[l].adopted => lk[l].rest \in {<<>>, <<Msg("Quit", lk[l].seat)>>}
      /\ Spoken(pl, l) /\ ~lk[l].adopted => lk[l].log = h /\ lk[l].rest = <<>>
  BY DEF StreamInv
<1>3. lk[l].log \in Seq(Entry) /\ lk[l].rest \in Seq(Entry) /\ lk[l].adopted \in BOOLEAN
  BY LinkFacts
<1>4. /\ IsPrefix(lk[l].log, h \o ms) /\ h \o ms \in Seq(Entry)
      /\ IsPrefix(h \o ms, h \o ms)
  <2>1. h \o ms \in Seq(Entry) /\ <<>> \in Seq(Entry)
    OBVIOUS
  <2> QED
    BY <1>2, <1>3, <2>1, PrefixGrows
<1>5. lk[l].rest # <<>> => lk[l].rest \o ms # <<>>
  BY <1>3
<1> HIDE DEF sent
<1>6. CASE Spoken(pl, l) /\ ~lk[l].adopted
  BY <1>1, <1>2, <1>4, <1>6 DEF StreamInv, sent
<1>7. CASE ~(Spoken(pl, l) /\ ~lk[l].adopted)
  <2>1. s.log = lk[l].log /\ (lk[l].rest # <<>> => s.rest # <<>>)
    BY <1>1, <1>2, <1>5, <1>7
  <2>2. ~lk[l].adopted => s.rest = lk[l].rest
    BY <1>1, <1>7
  <2>3. lk[l].adopted => s.rest # <<>>
    BY <1>2, <2>1
  <2> QED
    BY <1>1, <1>2, <1>4, <1>7, <2>1, <2>2, <2>3 DEF StreamInv, sent
<1> QED
  BY <1>6, <1>7

\* A link to which nobody sends any more stays as it is.
LEMMA FewerSpoken ==
    ASSUME NEW lk, NEW pl, NEW qu, NEW h, NEW l, StreamInv(lk, pl, h, l),
           Spoken(qu, l) /\ ~lk[l].adopted => Spoken(pl, l)
    PROVE  StreamInv(lk, qu, h, l)
  BY DEF StreamInv

\* The header of a link is about its seat and begins, if that is not in the start script,
\* with its introduction.
LEMMA HeaderFacts ==
    ASSUME NEW i \in Nat, NEW p \in Participant
    PROVE  /\ Header(i, p) \in Seq(Entry)
           /\ \A k \in DOMAIN Header(i, p) : Header(i, p)[k].seat = i
           /\ p.isMidgameJoin => 1 \in DOMAIN Header(i, p) /\ Header(i, p)[1] = Msg("CreateNewPlayer", i)
<1> DEFINE a == IF p.isMidgameJoin THEN <<Msg("CreateNewPlayer", i)>> ELSE <<>>
           b == <<Msg("GameData", i), Msg("SetPlayerNum", i)>>
           c == IF p.spectator THEN <<>> ELSE <<Msg("JoinTeam", i)>>
<1>1. Header(i, p) = a \o b \o c
  BY DEF Header
<1>2. \A type \in Types : Msg(type, i) \in Entry /\ Msg(type, i).seat = i
  BY MsgFacts
<1> DEFINE E == {m \in Entry : m.seat = i}
<1>3. a \in Seq(E) /\ b \in Seq(E) /\ c \in Seq(E)
  <2>1. \A type \in Types : Msg(type, i) \in E
    BY <1>2
  <2> HIDE DEF E
  <2>2. /\ Msg("CreateNewPlayer", i) \in E /\ Msg("GameData", i) \in E
        /\ Msg("SetPlayerNum", i) \in E /\ Msg("JoinTeam", i) \in E
    BY <2>1 DEF Types
  <2> HIDE DEF E
  <2> QED
    BY <2>2
<1>4. p.isMidgameJoin => Len(a) = 1 /\ a[1] = Msg("CreateNewPlayer", i)
  OBVIOUS
<1> HIDE DEF a, b, c
<1>6. a \o b \o c \in Seq(E)
  BY <1>3
<1>7. a \o b \o c \in Seq(Entry) /\ \A k \in DOMAIN (a \o b \o c) : (a \o b \o c)[k].seat = i
  BY <1>6
<1>8. p.isMidgameJoin => 1 \in DOMAIN (a \o b \o c) /\ (a \o b \o c)[1] = Msg("CreateNewPlayer", i)
  <2> HIDE DEF E
  <2> SUFFICES ASSUME p.isMidgameJoin
               PROVE  1 \in DOMAIN (a \o b \o c) /\ (a \o b \o c)[1] = Msg("CreateNewPlayer", i)
    OBVIOUS
  <2> DEFINE ab == a \o b
  <2>1. ab \in Seq(E) /\ Len(ab) >= 1 /\ ab[1] = a[1]
    <3>1. Len(a) = 1 /\ Len(b) \in Nat
      BY <1>3, <1>4
    <3>2. a \o b \in Seq(E) /\ Len(a \o b) = Len(a) + Len(b) /\ \A k \in 1..Len(a) : (a \o b)[k] = a[k]
      BY <1>3, ConcatFacts
    <3> QED
      BY <3>1, <3>2
  <2> HIDE DEF ab
  <2>2. 1 \in DOMAIN (ab \o c) /\ (ab \o c)[1] = ab[1]
    BY <1>3, <2>1
  <2> QED
    BY <1>4, <2>1, <2>2 DEF ab
<1> QED
  BY <1>1, <1>7, <1>8
-----------------------------------------------------------------------------
(* Seats and links                                                         *)

\* The fields of the participants
LEMMA PlayerFacts ==
    ASSUME NEW pl \in Seq(Participant)
    PROVE  /\ Len(pl) \in Nat /\ DOMAIN pl = 1..Len(pl)
           /\ \A i \in DOMAIN pl :
                /\ pl[i] \in Participant
                /\ pl[i].name \in Names \cup {Anonymous} /\ pl[i].spectator \in BOOLEAN
                /\ pl[i].team \in Nat /\ pl[i].isMidgameJoin \in BOOLEAN
                /\ pl[i].readyToStart \in BOOLEAN /\ pl[i].loopback \in BOOLEAN
                /\ pl[i].client \in BOOLEAN /\ pl[i].myState \in States /\ pl[i].clientLink \in Nat
<1>1. Len(pl) \in Nat /\ DOMAIN pl = 1..Len(pl) /\ \A i \in DOMAIN pl : pl[i] \in Participant
  OBVIOUS
<1>2. \A p \in Participant :
         /\ p.name \in Names \cup {Anonymous} /\ p.spectator \in BOOLEAN
         /\ p.team \in Nat /\ p.isMidgameJoin \in BOOLEAN
         /\ p.readyToStart \in BOOLEAN /\ p.loopback \in BOOLEAN
         /\ p.client \in BOOLEAN /\ p.myState \in States /\ p.clientLink \in Nat
  BY DEF Participant
<1> QED
  BY <1>1, <1>2

\* What the sequences of the state are
LEMMA StateFacts ==
    ASSUME IndInv
    PROVE  /\ players \in Seq(Participant) /\ links \in Seq(Link)
           /\ history \in Seq(Entry) /\ packetCache \in Seq(Entry)
           /\ DOMAIN players = 1..Len(players) /\ Len(players) \in Nat
           /\ DOMAIN links = 1..Len(links) /\ Len(links) \in Nat
<1>1. /\ players \in Seq(Participant) /\ links \in Seq(Link)
      /\ history \in Seq(Entry) /\ packetCache \in Seq(Entry)
  BY DEF IndInv, Shapes
<1> QED
  BY <1>1

\* A link has one seat.
LEMMA OneSeat ==
    ASSUME IndInv, NEW i \in DOMAIN players, NEW j \in DOMAIN players,
           players[i].clientLink = players[j].clientLink, players[i].clientLink # NoLink
    PROVE  i = j
  BY DEF IndInv, SeatInv

\* Whoever takes part has a link of its own to which everything was sent.
LEMMA TakesPartFacts ==
    ASSUME IndInv, NEW i \in DOMAIN players, TakesPart(i)
    PROVE  LET l == players[i].clientLink IN
           /\ l # NoLink /\ l \in DOMAIN links
           /\ Spoken(players, l) /\ links[l].seat = i
           /\ ~links[l].adopted /\ links[l].log = history /\ links[l].rest = <<>>
<1> DEFINE l == players[i].clientLink
<1>1. players[i].myState \in {"CONNECTED", "INGAME"} /\ ~links[l].adopted
  BY DEF TakesPart
<1>2. l # NoLink /\ l \in DOMAIN links /\ links[l].seat = i
  BY <1>1 DEF IndInv, SeatInv
<1>3. Spoken(players, l)
  BY <1>1 DEF Spoken
<1>4. StreamInv(links, players, history, l)
  BY <1>2 DEF IndInv, LinkInv
<1> QED
  BY <1>1, <1>2, <1>3, <1>4 DEF StreamInv

\* To whom a link belongs that is spoken to, and is not a second client's
LEMMA SpokenFacts ==
    ASSUME IndInv, NEW l \in DOMAIN links, Spoken(players, l)
    PROVE  LET i == links[l].seat IN
           /\ i \in DOMAIN players /\ players[i].clientLink = l
           /\ players[i].myState \in {"CONNECTED", "INGAME"}
           /\ ~links[l].adopted => TakesPart(i)
<1>1. PICK i \in DOMAIN players : players[i].clientLink = l /\ players[i].myState # "DISCONNECTING"
  BY DEF Spoken
<1>2. l # NoLink
  BY StateFacts DEF NoLink
<1>3. SeatInv(i)
  BY DEF IndInv
<1>4. links[l].seat = i /\ players[i].myState \in {"CONNECTED", "INGAME"}
  BY <1>1, <1>2, <1>3 DEF SeatInv
<1> QED
  BY <1>1, <1>4 DEF TakesPart

\* What the invariant of a seat depends on
SameSeat(p, q) ==
    /\ p.loopback = q.loopback /\ p.clientLink = q.clientLink
    /\ p.myState = q.myState /\ p.isMidgameJoin = q.isMidgameJoin

\* A link may get more after its Quit.
LinkKept(old, new) ==
    /\ new.seat = old.seat /\ new.adopted = old.adopted
    /\ old.rest # <<>> => new.rest # <<>>

\* A seat of which nothing was said, whose link is kept
LEMMA SeatKept ==
    ASSUME IndInv, NEW i \in DOMAIN players, SameSeat(players'[i], players[i]),
           players[i].clientLink # NoLink =>
               /\ players[i].clientLink \in DOMAIN links'
               /\ LinkKept(links[players[i].clientLink], links'[players[i].clientLink]),
           Tells(history', i) <=> Tells(history, i),
           \A m : Mentions(history, m) => Mentions(history', m)
    PROVE  SeatInv(i)'
<1>1. SeatInv(i)
  BY DEF IndInv
<1> DEFINE p == players[i]
           q == players'[i]
           l == p.clientLink
<1>2. /\ q.loopback = p.loopback /\ q.clientLink = p.clientLink
      /\ q.myState = p.myState /\ q.isMidgameJoin = p.isMidgameJoin
  BY DEF SameSeat
<1>3. p.myState \in {"CONNECTED", "INGAME"} => l # NoLink
  BY <1>1 DEF SeatInv
<1>4. TakesPart(i)' <=> TakesPart(i)
  BY <1>2, <1>3 DEF TakesPart, LinkKept
<1>5. q.myState = "DISCONNECTING" => links'[q.clientLink].rest # <<>>
  BY <1>1, <1>2 DEF SeatInv, LinkKept
<1>6. q.clientLink # NoLink => q.clientLink \in DOMAIN links' /\ links'[q.clientLink].seat = i
  BY <1>1, <1>2 DEF SeatInv, LinkKept
<1>7. q.clientLink # NoLink <=> q.myState \in {"CONNECTED", "INGAME", "DISCONNECTING"}
  BY <1>1, <1>2 DEF SeatInv
<1> HIDE DEF p, q, l
<1> QED
  BY <1>1, <1>2, <1>4, <1>5, <1>6, <1>7 DEF SeatInv, p, q, l

\* The header of a link remains that of its seat.
LEMMA HeaderKept ==
    ASSUME IndInv, NEW l \in DOMAIN links,
           links'[l].seat = links[l].seat, links'[l].header = links[l].header,
           LET i == links[l].seat IN
               /\ i \in DOMAIN players'
               /\ players'[i].isMidgameJoin = players[i].isMidgameJoin
               /\ players'[i].spectator = players[i].spectator
    PROVE  HeaderInv(l)'
<1> DEFINE i == links[l].seat
<1>1. i \in DOMAIN players /\ links[l].header = Header(i, players[i])
  BY DEF IndInv, LinkInv, HeaderInv
<1>2. players[i].isMidgameJoin \in BOOLEAN /\ players[i].spectator \in BOOLEAN /\ i \in Nat
  <2>1. players \in Seq(Participant) /\ i \in Nat
    BY <1>1, StateFacts
  <2>2. \A j \in DOMAIN players : players[j].isMidgameJoin \in BOOLEAN /\ players[j].spectator \in BOOLEAN
    BY <2>1, PlayerFacts
  <2> QED
    BY <1>1, <2>1, <2>2
<1>3. Header(i, players'[i]) = Header(i, players[i])
  BY DEF Header
<1> QED
  BY <1>1, <1>3 DEF HeaderInv

\* Somebody may connect only while the cache has everything.
LEMMA CacheComplete ==
    ASSUME IndInv, NEW n, MayConnect(n) \/ MayReconnect(n)
    PROVE  packetCache = history /\ Cached(canReconnect, gameHasStarted)
<1>1. accepting \/ ~gameHasStarted
  BY DEF MayConnect, MayReconnect
<1>2. Cached(canReconnect, gameHasStarted)
  BY <1>1 DEF IndInv, CacheInv, Cached
<1> QED
  BY <1>2 DEF IndInv, CacheInv

\* Initially there are no links, and nothing was said.
LEMMA InitIndInv == Init => IndInv
<1> SUFFICES ASSUME Init
             PROVE  IndInv
  OBVIOUS
<1>1. \A i \in DOMAIN Script :
         players[i] = Seat(Script[i].name, Script[i].spectator, Script[i].team, FALSE)
  BY DEF Init
<1>2. \A i \in DOMAIN Script :
         /\ players[i] \in Participant
         /\ players[i].clientLink = NoLink /\ ~players[i].loopback /\ ~players[i].isMidgameJoin
         /\ players[i].myState = "UNCONNECTED"
  <2>1. ASSUME NEW i \in DOMAIN Script
        PROVE  /\ players[i] \in Participant
               /\ players[i].clientLink = NoLink /\ ~players[i].loopback /\ ~players[i].isMidgameJoin
               /\ players[i].myState = "UNCONNECTED"
    <3>1. Script[i].name \in Names /\ Script[i].spectator \in BOOLEAN /\ Script[i].team \in Nat
      BY ScriptFacts
    <3>2. players[i] = Seat(Script[i].name, Script[i].spectator, Script[i].team, FALSE)
      BY <1>1
    <3> QED
      BY <3>1, <3>2 DEF Seat, Participant, States, NoLink
  <2> QED
    BY <2>1
<1>3. DOMAIN players = 1..Len(Script) /\ Len(Script) \in Nat
  BY ScriptFacts DEF Init
<1>4. players \in Seq(Participant)
  <2>1. players = [i \in 1..Len(Script) |-> players[i]] /\ DOMAIN Script = 1..Len(Script)
    BY ScriptFacts DEF Init
  <2>2. \A i \in 1..Len(Script) : players[i] \in Participant
    BY <1>2, <2>1
  <2> QED
    BY <1>3, <2>1, <2>2
<1>5. links = <<>> /\ history = <<>> /\ packetCache = <<>>
  BY DEF Init
<1>6. Shapes
  <2>1. /\ allowSpecJoin \in BOOLEAN /\ reconnectTimeout \in BOOLEAN
        /\ canReconnect \in BOOLEAN /\ accepting \in BOOLEAN /\ readyTime \in BOOLEAN
        /\ gameHasStarted \in BOOLEAN /\ quitServer \in BOOLEAN
        /\ teams \subseteq Nat /\ DOMAIN Script \subseteq DOMAIN players
    BY DEF Init
  <2>2. <<>> \in Seq(Link) /\ <<>> \in Seq(Entry)
    OBVIOUS
  <2> QED
    BY <1>4, <1>5, <2>1, <2>2 DEF Shapes
<1>7. CacheInv /\ HistoryInv
  BY <1>5 DEF CacheInv, HistoryInv, Introduces, Init
<1>8. ASSUME NEW i \in DOMAIN players
      PROVE  SeatInv(i)
  BY <1>2, <1>3, <1>5 DEF SeatInv, TakesPart, Tells
<1>9. \A l \in DOMAIN links : LinkInv(l)
  BY <1>5
<1> QED
  BY <1>6, <1>7, <1>8, <1>9 DEF IndInv

\* The invariant has the properties of the runs as consequences.
LEMMA TypesFollow == IndInv => TypeOK
<1> SUFFICES ASSUME IndInv
             PROVE  TypeOK
  OBVIOUS
<1>1. ASSUME NEW i \in DOMAIN players
      PROVE  players[i] \in
               [name : Names \cup {Anonymous}, spectator : BOOLEAN, team : Nat,
                isMidgameJoin : BOOLEAN, readyToStart : BOOLEAN, loopback : BOOLEAN, client : BOOLEAN,
                myState : {"UNCONNECTED", "CONNECTED", "INGAME", "DISCONNECTING", "DISCONNECTED"},
                clientLink : {NoLink} \cup DOMAIN links]
  <2>1. players[i] \in Participant
    BY StateFacts, PlayerFacts
  <2>2. players[i].clientLink \in {NoLink} \cup DOMAIN links
    BY DEF IndInv, SeatInv
  <2> QED
    BY <2>1, <2>2 DEF Participant, States
<1>2. \A l \in DOMAIN links : links[l].seat \in DOMAIN players /\ links[l].adopted \in BOOLEAN
  BY StateFacts, LinkFacts DEF IndInv, LinkInv, HeaderInv
<1> QED
  BY <1>1, <1>2 DEF TypeOK, IndInv, Shapes
-----------------------------------------------------------------------------
(* Broadcasts                                                              *)

\* A message about a seat that there is can be broadcast.
LEMMA HistoryKept ==
    ASSUME IndInv, NEW m \in Entry, m.seat <= Len(players), Len(players) <= Len(players'),
           history' = history \o <<m>>, Len(players') \in Nat
    PROVE  HistoryInv'
<1>1. /\ history \in Seq(Entry) /\ m.seat \in Nat /\ <<m>> \in Seq(Entry)
      /\ DOMAIN players = 1..Len(players) /\ Len(players) \in Nat
  BY StateFacts DEF Entry
<1>2. m.seat > Len(Script) => Mentions(history, Msg("CreateNewPlayer", m.seat))
  <2> SUFFICES ASSUME m.seat > Len(Script)
               PROVE  Mentions(history, Msg("CreateNewPlayer", m.seat))
    OBVIOUS
  <2>1. m.seat \in DOMAIN players
    BY <1>1, ScriptFacts
  <2> QED
    BY <2>1 DEF IndInv, SeatInv
<1>3. Introduces(history) /\ \A k \in DOMAIN history : history[k].seat <= Len(players)
  BY DEF IndInv, HistoryInv
<1>4. DOMAIN <<m>> = 1..1 /\ <<m>>[1] = m
  OBVIOUS
<1>5. Introduces(history \o <<m>>)
  <2>1. \A k \in DOMAIN <<m>> : <<m>>[k].seat > Len(Script) =>
          Mentions(history, Msg("CreateNewPlayer", <<m>>[k].seat))
    BY <1>2, <1>4
  <2> QED
    BY <1>1, <1>3, <2>1, IntroducesConcat
<1>6. \A k \in DOMAIN (history \o <<m>>) : (history \o <<m>>)[k].seat <= Len(players')
  <2>1. \A k \in DOMAIN (history \o <<m>>) :
           \/ k \in DOMAIN history /\ (history \o <<m>>)[k] = history[k]
           \/ (history \o <<m>>)[k] = m
    BY <1>1
  <2>2. \A k \in DOMAIN history : history[k].seat \in Nat
    <3>1. \A e \in Entry : e.seat \in Nat
      BY DEF Entry
    <3>2. \A k \in DOMAIN history : history[k] \in Entry
      BY <1>1
    <3> QED
      BY <3>1, <3>2
  <2> QED
    BY <1>1, <1>3, <2>1, <2>2
<1> QED
  BY <1>5, <1>6 DEF HistoryInv

\* What a message that is broadcast tells of each seat
LEMMA HistoryTells ==
    ASSUME IndInv, NEW m \in Entry, history' = history \o <<m>>
    PROVE  /\ \A i \in Nat : Tells(history', i) <=>
                 m = Msg("PlayerName", i) \/ (Tells(history, i) /\ m # Msg("PlayerLeft", i))
           /\ \A x : Mentions(history, x) => Mentions(history', x)
           /\ Mentions(history', m)
<1>1. history \in Seq(Entry) /\ <<m>> \in Seq(Entry)
  BY StateFacts
<1>2. \A x : Mentions(history \o <<m>>, x) <=> Mentions(history, x) \/ Mentions(<<m>>, x)
  BY <1>1, MentionsConcat
<1>3. Mentions(<<m>>, m)
  BY DEF Mentions
<1>4. \A i \in Nat : Tells(history \o <<m>>, i) <=>
         m = Msg("PlayerName", i) \/ (Tells(history, i) /\ m # Msg("PlayerLeft", i))
  BY <1>1, TellsNext
<1> QED
  BY <1>2, <1>3, <1>4

\* A broadcast that changes nothing about the seats but that the one of which it is the
\* name is now in the game
LEMMA BroadcastPreserves ==
    ASSUME IndInv, CacheInv', NEW m \in Entry, m.seat <= Len(players),
           m.type # "PlayerLeft",
           history' = history \o <<m>>, packetCache' \in Seq(Entry),
           links' = Sent(links, players, <<m>>),
           players' \in Seq(Participant), DOMAIN players' = DOMAIN players,
           \A i \in DOMAIN players :
               /\ players'[i].clientLink = players[i].clientLink
               /\ players'[i].loopback = players[i].loopback
               /\ players'[i].isMidgameJoin = players[i].isMidgameJoin
               /\ players'[i].spectator = players[i].spectator
               /\ IF m = Msg("PlayerName", i)
                  THEN players[i].myState = "CONNECTED" /\ players'[i].myState = "INGAME"
                  ELSE players'[i].myState = players[i].myState,
           UNCHANGED <<config, teams, canReconnect, quitServer>>,
           accepting' \in BOOLEAN, readyTime' \in BOOLEAN, gameHasStarted' \in BOOLEAN
    PROVE  IndInv'
<1> DEFINE ms == <<m>>
<1>1. /\ players \in Seq(Participant) /\ links \in Seq(Link) /\ history \in Seq(Entry)
      /\ ms \in Seq(Entry)
      /\ DOMAIN players = 1..Len(players) /\ DOMAIN links = 1..Len(links)
  BY StateFacts
<1>2. links' \in Seq(Link) /\ Len(links') = Len(links) /\ DOMAIN links' = DOMAIN links
      /\ \A l \in DOMAIN links : Receives(links[l], links'[l], ms, Spoken(players, l))
  BY <1>1, SentFacts
<1>3. \A l \in DOMAIN links :
         /\ links'[l].seat = links[l].seat /\ links'[l].adopted = links[l].adopted
         /\ links'[l].header = links[l].header
  BY <1>2 DEF Receives
<1>4. Shapes'
  <2>1. history' \in Seq(Entry)
    BY <1>1
  <2> QED
    BY <1>2, <2>1 DEF IndInv, Shapes, config
<1>5. HistoryInv'
  BY <1>1, HistoryKept
<1>6. ASSUME NEW l \in DOMAIN links
      PROVE  /\ StreamInv(links', players, history', l)
             /\ links[l].rest # <<>> => links'[l].rest # <<>>
  <2>1. StreamInv(links, players, history, l)
    BY DEF IndInv, LinkInv
  <2> HIDE DEF ms
  <2>2. /\ StreamInv(Sent(links, players, ms), players, history \o ms, l)
        /\ links[l].rest # <<>> => Sent(links, players, ms)[l].rest # <<>>
    BY <1>1, <2>1, SentStreams
  <2> QED
    BY <2>2 DEF ms
<1>7. ASSUME NEW l \in DOMAIN links'
      PROVE  LinkInv(l)'
  <2>1. Spoken(players', l) => Spoken(players, l)
    BY <1>1 DEF Spoken
  <2>2. StreamInv(links', players', history', l)
    BY <1>2, <1>6, <2>1, FewerSpoken
  <2>3. links[l].seat \in DOMAIN players
    BY <1>2 DEF IndInv, LinkInv, HeaderInv
  <2>4. HeaderInv(l)'
    BY <1>2, <1>3, <2>3, HeaderKept
  <2> QED
    BY <2>2, <2>4 DEF LinkInv
<1>8. ASSUME NEW i \in DOMAIN players
      PROVE  SeatInv(i)'
  <2>1. SeatInv(i) /\ i \in Nat
    BY <1>1 DEF IndInv
  <2>2. (Tells(history', i) <=> m = Msg("PlayerName", i) \/ Tells(history, i))
        /\ \A x : Mentions(history, x) => Mentions(history', x)
    <3>1. m # Msg("PlayerLeft", i)
      BY DEF Msg
    <3> QED
      BY <2>1, <3>1, HistoryTells
  <2>3. players[i].clientLink # NoLink =>
           /\ players[i].clientLink \in DOMAIN links'
           /\ LinkKept(links[players[i].clientLink], links'[players[i].clientLink])
    BY <1>2, <1>3, <1>6, <2>1 DEF SeatInv, LinkKept
  <2>4. CASE m = Msg("PlayerName", i)
    <3> DEFINE p == players[i]
               q == players'[i]
    <3>1. /\ q.clientLink = p.clientLink /\ q.loopback = p.loopback
          /\ q.isMidgameJoin = p.isMidgameJoin
          /\ p.myState = "CONNECTED" /\ q.myState = "INGAME"
      BY <2>4
    <3> HIDE DEF p, q
    <3>2. p.clientLink # NoLink
      BY <2>1, <3>1 DEF SeatInv, p
    <3>3. TakesPart(i)' <=> TakesPart(i)
      BY <2>3, <3>1, <3>2 DEF TakesPart, LinkKept, p, q
    <3> QED
      BY <2>1, <2>2, <2>3, <2>4, <3>1, <3>2, <3>3 DEF SeatInv, LinkKept, p, q
  <2>5. CASE m # Msg("PlayerName", i)
    <3>1. SameSeat(players'[i], players[i])
      BY <2>5 DEF SameSeat
    <3> QED
      BY <2>2, <2>3, <2>5, <3>1, SeatKept
  <2> QED
    BY <2>4, <2>5
<1> QED
  BY <1>4, <1>5, <1>7, <1>8 DEF IndInv

\* The cache keeps having everything while nothing else changes about who may come.
LEMMA CacheKept ==
    ASSUME IndInv, NEW ms \in Seq(Entry), UNCHANGED <<config, game>>,
           canReconnect' = canReconnect \/ packetCache = history,
           canReconnect => canReconnect',
           Record(ms, Cached(canReconnect', gameHasStarted))
    PROVE  /\ CacheInv' /\ packetCache' \in Seq(Entry) /\ history' = history \o ms
           /\ Cached(canReconnect', gameHasStarted) => packetCache' = history'
<1>1. history \in Seq(Entry) /\ packetCache \in Seq(Entry)
  BY StateFacts
<1>2. CacheInv /\ canReconnect \in BOOLEAN
  BY DEF IndInv, Shapes
<1>3. Cached(canReconnect', gameHasStarted) => packetCache = history
  BY <1>2 DEF CacheInv
<1>4. /\ history' = history \o ms
      /\ packetCache' = IF Cached(canReconnect', gameHasStarted) THEN packetCache \o ms ELSE packetCache
  BY DEF Record
<1>5. Cached(canReconnect, gameHasStarted)' <=> Cached(canReconnect', gameHasStarted)
  BY DEF Cached, config, game
<1>6. packetCache' \in Seq(Entry)
  BY <1>1, <1>4
<1>7. gameHasStarted' /\ accepting' => canReconnect' \/ allowSpecJoin'
  BY <1>2 DEF CacheInv, config, game
<1> QED
  BY <1>3, <1>4, <1>5, <1>6, <1>7 DEF CacheInv

\* One seat of several is changed.
LEMMA SeatChanged ==
    ASSUME NEW pl \in Seq(Participant), NEW i \in DOMAIN pl, NEW p \in Participant
    PROVE  /\ [pl EXCEPT ![i] = p] \in Seq(Participant)
           /\ DOMAIN [pl EXCEPT ![i] = p] = DOMAIN pl
           /\ [pl EXCEPT ![i] = p][i] = p
           /\ \A j \in DOMAIN pl : j # i => [pl EXCEPT ![i] = p][j] = pl[j]
<1>1. i \in 1..Len(pl)
  OBVIOUS
<1>2. [pl EXCEPT ![i] = p] \in Seq(Participant)
  BY <1>1, ExceptSeq
<1> QED
  BY <1>2

\* Broadcasts that come from a client or from the server's loop preserve the invariant.
LEMMA PlayerNamePreserves ==
    ASSUME IndInv, NEW i \in DOMAIN players, PlayerName(i)
    PROVE  IndInv'
<1> DEFINE m == Msg("PlayerName", i)
           p == [players[i] EXCEPT !.myState = "INGAME"]
<1>1. /\ players \in Seq(Participant) /\ i \in Nat /\ i <= Len(players)
      /\ players[i].myState = "CONNECTED" /\ players' = [players EXCEPT ![i] = p]
      /\ UNCHANGED <<config, teams, canReconnect, game, quitServer>>
      /\ links' = Sent(links, players, <<m>>)
      /\ Record(<<m>>, Cached(canReconnect', gameHasStarted))
  BY StateFacts DEF PlayerName, Broadcast
<1>2. m \in Entry /\ m.seat = i /\ m.type = "PlayerName" /\ <<m>> \in Seq(Entry)
  BY <1>1, MsgFacts DEF Types
<1>3. players[i] \in Participant
  BY <1>1
<1>4. p \in Participant /\ p.myState = "INGAME" /\ p.clientLink = players[i].clientLink
      /\ p.loopback = players[i].loopback /\ p.isMidgameJoin = players[i].isMidgameJoin
      /\ p.spectator = players[i].spectator
  BY <1>3 DEF Participant, States
<1> HIDE DEF p
<1>5. players' \in Seq(Participant) /\ DOMAIN players' = DOMAIN players
      /\ players'[i] = p /\ \A j \in DOMAIN players : j # i => players'[j] = players[j]
  BY <1>1, <1>4, SeatChanged
<1>6. \A j \in DOMAIN players : m = Msg("PlayerName", j) <=> j = i
  BY DEF Msg
<1>7. CacheInv' /\ packetCache' \in Seq(Entry) /\ history' = history \o <<m>>
  BY <1>1, <1>2, CacheKept DEF IndInv, Shapes
<1>8. accepting' \in BOOLEAN /\ readyTime' \in BOOLEAN /\ gameHasStarted' \in BOOLEAN
  BY <1>1 DEF IndInv, Shapes, game
<1> HIDE DEF m
<1>9. ASSUME NEW j \in DOMAIN players
      PROVE  /\ players'[j].clientLink = players[j].clientLink
             /\ players'[j].loopback = players[j].loopback
             /\ players'[j].isMidgameJoin = players[j].isMidgameJoin
             /\ players'[j].spectator = players[j].spectator
             /\ IF m = Msg("PlayerName", j)
                THEN players[j].myState = "CONNECTED" /\ players'[j].myState = "INGAME"
                ELSE players'[j].myState = players[j].myState
  <2>1. CASE j = i
    BY <1>1, <1>4, <1>5, <1>6, <2>1
  <2>2. CASE j # i
    BY <1>5, <1>6, <2>2
  <2> QED
    BY <2>1, <2>2
<1>10. /\ m.seat <= Len(players) /\ m.type # "PlayerLeft"
       /\ UNCHANGED <<config, teams, canReconnect, quitServer>>
  BY <1>1, <1>2
<1> QED
  BY <1>1, <1>2, <1>5, <1>7, <1>8, <1>9, <1>10, BroadcastPreserves

\* NETMSG_STARTPOS preserves the invariant.
LEMMA StartPosPreserves ==
    ASSUME IndInv, NEW i \in DOMAIN players, NEW ready \in BOOLEAN, StartPos(i, ready)
    PROVE  IndInv'
<1> DEFINE m == Msg("StartPos", i)
           p == [players[i] EXCEPT !.readyToStart = ready]
<1>1. /\ players \in Seq(Participant) /\ i \in Nat /\ i <= Len(players)
      /\ players' = [players EXCEPT ![i] = p]
      /\ UNCHANGED <<config, teams, canReconnect, game, quitServer>>
      /\ links' = Sent(links, players, <<m>>)
      /\ Record(<<m>>, Cached(canReconnect', gameHasStarted))
  BY StateFacts DEF StartPos, Broadcast
<1>2. m \in Entry /\ m.seat = i /\ m.type = "StartPos" /\ <<m>> \in Seq(Entry)
  BY <1>1, MsgFacts DEF Types
<1>3. players[i] \in Participant
  BY <1>1
<1>4. p \in Participant /\ p.myState = players[i].myState /\ p.clientLink = players[i].clientLink
      /\ p.loopback = players[i].loopback /\ p.isMidgameJoin = players[i].isMidgameJoin
      /\ p.spectator = players[i].spectator
  BY <1>3 DEF Participant
<1> HIDE DEF p
<1>5. players' \in Seq(Participant) /\ DOMAIN players' = DOMAIN players
      /\ players'[i] = p /\ \A j \in DOMAIN players : j # i => players'[j] = players[j]
  BY <1>1, <1>4, SeatChanged
<1>6. \A j \in DOMAIN players : m # Msg("PlayerName", j)
  BY DEF Msg
<1>7. CacheInv' /\ packetCache' \in Seq(Entry) /\ history' = history \o <<m>>
  BY <1>1, <1>2, CacheKept DEF IndInv, Shapes
<1>8. accepting' \in BOOLEAN /\ readyTime' \in BOOLEAN /\ gameHasStarted' \in BOOLEAN
  BY <1>1 DEF IndInv, Shapes, game
<1> HIDE DEF m
<1>9. ASSUME NEW j \in DOMAIN players
      PROVE  /\ players'[j].clientLink = players[j].clientLink
             /\ players'[j].loopback = players[j].loopback
             /\ players'[j].isMidgameJoin = players[j].isMidgameJoin
             /\ players'[j].spectator = players[j].spectator
             /\ m # Msg("PlayerName", j) /\ players'[j].myState = players[j].myState
  <2>1. CASE j = i
    BY <1>4, <1>5, <1>6, <2>1
  <2>2. CASE j # i
    BY <1>5, <1>6, <2>2
  <2> QED
    BY <2>1, <2>2
<1>10. /\ m.seat <= Len(players) /\ m.type # "PlayerLeft"
       /\ UNCHANGED <<config, teams, canReconnect, quitServer>>
  BY <1>1, <1>2
<1> QED
  BY <1>1, <1>2, <1>5, <1>7, <1>8, <1>9, <1>10, BroadcastPreserves

\* Broadcasts about no seat leave the seats alone.
LEMMA AnnouncementPreserves ==
    ASSUME IndInv, NEW type \in Types, type # "PlayerLeft", type # "PlayerName",
           UNCHANGED <<config, players, teams, canReconnect, quitServer>>,
           links' = Sent(links, players, <<Msg(type, NoSeat)>>),
           history' = history \o <<Msg(type, NoSeat)>>,
           CacheInv', packetCache' \in Seq(Entry),
           accepting' \in BOOLEAN, readyTime' \in BOOLEAN, gameHasStarted' \in BOOLEAN
    PROVE  IndInv'
<1> DEFINE m == Msg(type, NoSeat)
<1>1. players \in Seq(Participant) /\ Len(players) \in Nat /\ players' = players
  BY StateFacts
<1>2. m \in Entry /\ m.seat = NoSeat /\ m.type = type
  BY MsgFacts DEF NoSeat
<1>3. m.seat <= Len(players)
  BY <1>1, <1>2 DEF NoSeat
<1>4. \A j \in DOMAIN players : m # Msg("PlayerName", j)
  BY DEF Msg
<1> HIDE DEF m
<1>5. UNCHANGED <<config, teams, canReconnect, quitServer>>
  OBVIOUS
<1>6. links' = Sent(links, players, <<m>>) /\ history' = history \o <<m>>
  BY DEF m
<1>7. \A i \in DOMAIN players :
         /\ players'[i].clientLink = players[i].clientLink
         /\ players'[i].loopback = players[i].loopback
         /\ players'[i].isMidgameJoin = players[i].isMidgameJoin
         /\ players'[i].spectator = players[i].spectator
         /\ IF m = Msg("PlayerName", i)
            THEN players[i].myState = "CONNECTED" /\ players'[i].myState = "INGAME"
            ELSE players'[i].myState = players[i].myState
  BY <1>1, <1>4
<1> QED
  BY <1>1, <1>2, <1>3, <1>5, <1>6, <1>7, BroadcastPreserves

\* Any other broadcast preserves it.
LEMMA MessagePreserves ==
    ASSUME IndInv, Message
    PROVE  IndInv'
<1>1. /\ UNCHANGED <<config, players, teams, canReconnect, game, quitServer>>
      /\ Record(<<Msg("Message", NoSeat)>>, Cached(canReconnect', gameHasStarted))
      /\ links' = Sent(links, players, <<Msg("Message", NoSeat)>>)
  BY DEF Message, Broadcast
<1>2. <<Msg("Message", NoSeat)>> \in Seq(Entry) /\ "Message" \in Types
  BY MsgFacts DEF Types, NoSeat
<1>3. CacheInv' /\ packetCache' \in Seq(Entry) /\ history' = history \o <<Msg("Message", NoSeat)>>
  BY <1>1, <1>2, CacheKept DEF IndInv, Shapes
<1>4. accepting' \in BOOLEAN /\ readyTime' \in BOOLEAN /\ gameHasStarted' \in BOOLEAN
  BY <1>1 DEF IndInv, Shapes, game
<1> QED
  BY <1>1, <1>2, <1>3, <1>4, AnnouncementPreserves

\* CheckForGameStart preserves it.
LEMMA CheckForGameStartPreserves ==
    ASSUME IndInv, NEW late, NEW forced, CheckForGameStart(late, forced)
    PROVE  IndInv'
<1> DEFINE m == Msg("StartPlaying", NoSeat)
<1>1. /\ UNCHANGED <<config, players, teams, canReconnect, accepting, gameHasStarted, quitServer>>
      /\ readyTime' = TRUE
      /\ Record(<<m>>, Cached(canReconnect, gameHasStarted))
      /\ links' = Sent(links, players, <<m>>)
  BY DEF CheckForGameStart, Broadcast
<1>2. <<m>> \in Seq(Entry) /\ "StartPlaying" \in Types
  BY MsgFacts DEF Types, NoSeat
<1>3. history \in Seq(Entry) /\ packetCache \in Seq(Entry)
  BY StateFacts
<1>4. /\ history' = history \o <<m>>
      /\ packetCache' = IF Cached(canReconnect, gameHasStarted) THEN packetCache \o <<m>> ELSE packetCache
  BY <1>1 DEF Record
<1>5. CacheInv' /\ packetCache' \in Seq(Entry)
  BY <1>1, <1>2, <1>3, <1>4 DEF IndInv, CacheInv, Cached, config
<1>6. accepting' \in BOOLEAN /\ readyTime' \in BOOLEAN /\ gameHasStarted' \in BOOLEAN
  BY <1>1 DEF IndInv, Shapes
<1> QED
  BY <1>1, <1>2, <1>4, <1>5, <1>6, AnnouncementPreserves

\* The cache is emptied exactly if from now on nobody may come.
LEMMA StartGamePreserves ==
    ASSUME IndInv, StartGame
    PROVE  IndInv'
<1> DEFINE m == Msg("StartGame", NoSeat)
           late == canReconnect \/ allowSpecJoin
<1>1. /\ UNCHANGED <<config, players, teams, canReconnect, readyTime, quitServer>>
      /\ ~gameHasStarted /\ gameHasStarted' = TRUE /\ accepting' = (accepting /\ late)
      /\ packetCache' = (IF late THEN packetCache ELSE <<>>)
                        \o (IF Cached(canReconnect, TRUE) THEN <<m>> ELSE <<>>)
      /\ history' = history \o <<m>>
      /\ links' = Sent(links, players, <<m>>)
  BY DEF StartGame
<1>2. <<m>> \in Seq(Entry) /\ "StartGame" \in Types
  BY MsgFacts DEF Types, NoSeat
<1>3. history \in Seq(Entry) /\ packetCache \in Seq(Entry)
  BY StateFacts
<1>4. packetCache = history
  BY <1>1 DEF IndInv, CacheInv, Cached
<1>5. Cached(canReconnect, TRUE) <=> late
  BY DEF Cached
<1>6. packetCache' = IF late THEN history' ELSE <<>> \o <<>>
  BY <1>1, <1>4, <1>5
<1>7. allowSpecJoin' = allowSpecJoin /\ canReconnect' = canReconnect
  BY <1>1 DEF config
<1>8. CacheInv' /\ packetCache' \in Seq(Entry)
  <2>1. history' \in Seq(Entry) /\ <<>> \o <<>> \in Seq(Entry)
    BY <1>1, <1>2, <1>3
  <2> QED
    <3>1. Cached(canReconnect, gameHasStarted)' <=> late
      BY <1>1, <1>7 DEF Cached
    <3>2. late => packetCache' = history'
      BY <1>6
    <3>3. accepting' => canReconnect' \/ allowSpecJoin'
      <4>1. accepting' = (accepting /\ late) /\ accepting \in BOOLEAN
        BY <1>1 DEF IndInv, Shapes
      <4>2. accepting' => late
        BY <4>1, Zenon
      <4> QED
        BY <1>7, <4>2
    <3>4. packetCache' \in Seq(Entry)
      BY <1>6, <2>1
    <3> QED
      BY <3>1, <3>2, <3>3, <3>4 DEF CacheInv
<1>9. accepting' \in BOOLEAN /\ readyTime' \in BOOLEAN /\ gameHasStarted' \in BOOLEAN
  BY <1>1 DEF IndInv, Shapes
<1> QED
  BY <1>1, <1>2, <1>8, <1>9, AnnouncementPreserves
-----------------------------------------------------------------------------
(* Leaving                                                                 *)

\* What becomes of the seat
LEMMA KilledFacts ==
    ASSUME NEW p \in Participant, NEW flush \in BOOLEAN
    PROVE  LET q == Killed(p, flush) IN
           /\ q \in Participant
           /\ q.isMidgameJoin = p.isMidgameJoin /\ q.spectator = p.spectator /\ q.name = p.name
           /\ q.team = p.team
           /\ ~q.loopback
           /\ \/ q.myState = "DISCONNECTING" /\ q.clientLink = p.clientLink /\ p.clientLink # NoLink
              \/ q.myState = "DISCONNECTED" /\ q.clientLink = NoLink
           /\ p.clientLink = NoLink => q.clientLink = NoLink
<1>1. /\ NoLink \in Nat
      /\ p.client \in BOOLEAN /\ p.clientLink \in Nat
  BY DEF NoLink, Participant
<1>2. Lingers(p, flush) => p.clientLink # NoLink
  BY DEF Lingers
<1>3. CASE Lingers(p, flush)
  <2>1. Killed(p, flush) = [p EXCEPT !.loopback = FALSE, !.myState = "DISCONNECTING",
                                     !.clientLink = p.clientLink, !.client = p.client]
    BY <1>1, <1>3 DEF Killed, Participant
  <2> QED
    BY <1>1, <1>2, <1>3, <2>1 DEF Participant, States
<1>4. CASE ~Lingers(p, flush)
  <2>1. Killed(p, flush) = [p EXCEPT !.loopback = FALSE, !.myState = "DISCONNECTED",
                                     !.clientLink = NoLink, !.client = FALSE]
    BY <1>1, <1>4 DEF Killed, Participant
  <2> QED
    BY <1>1, <1>4, <2>1 DEF Participant, States
<1> QED
  BY <1>3, <1>4

\* The stream of a link depends on no other link.
LEMMA StreamLocal ==
    ASSUME NEW lk, NEW km, NEW pl, NEW h, NEW l, StreamInv(lk, pl, h, l), km[l] = lk[l]
    PROVE  StreamInv(km, pl, h, l)
  BY DEF StreamInv

\* The link of the one who leaves is told that it left, like the others, and gets the Quit
\* unless it has one.
LEMMA LeaveLinks ==
    ASSUME IndInv, NEW i \in DOMAIN players, NEW flush,
           players[i].clientLink # NoLink, Leave(i, flush)
    PROVE  LET told == Sent(links, players, <<Msg("PlayerLeft", i)>>)
               l == players[i].clientLink
           IN
           /\ links' \in Seq(Link) /\ DOMAIN links' = DOMAIN links /\ l \in DOMAIN links
           /\ \A k \in DOMAIN links :
                /\ k # l => links'[k] = told[k]
                /\ links'[k].name = links[k].name /\ links'[k].seat = links[k].seat
                /\ links'[k].adopted = links[k].adopted /\ links'[k].header = links[k].header
                /\ links'[k].log = told[k].log
           /\ links'[l].rest = told[l].rest \o (IF players[i].myState = "DISCONNECTING"
                                                THEN <<>> ELSE <<Msg("Quit", i)>>)
<1> DEFINE ms == <<Msg("PlayerLeft", i)>>
           told == Sent(links, players, ms)
           l == players[i].clientLink
           quit == IF players[i].myState = "DISCONNECTING" THEN <<>> ELSE <<Msg("Quit", i)>>
           new == [told[l] EXCEPT !.rest = @ \o quit]
<1>1. i \in Nat /\ links \in Seq(Link) /\ l \in DOMAIN links /\ DOMAIN links = 1..Len(links)
  BY StateFacts DEF IndInv, SeatInv
<1>2. ms \in Seq(Entry)
  BY <1>1, MsgFacts DEF Types
<1>3. quit \in Seq(Entry)
  <2>1. <<Msg("Quit", i)>> \in Seq(Entry) /\ <<>> \in Seq(Entry)
    BY <1>1, MsgFacts DEF Types
  <2> QED
    BY <2>1
<1>4. links' = [told EXCEPT ![l] = new]
  BY DEF Leave
<1> HIDE DEF ms, quit
<1>5. told \in Seq(Link) /\ Len(told) = Len(links) /\ DOMAIN told = DOMAIN links
      /\ \A k \in DOMAIN links : Receives(links[k], told[k], ms, Spoken(players, k))
  BY <1>1, <1>2, SentFacts
<1> HIDE DEF told, l
<1>6. told[l] \in Link /\ told[l].rest \in Seq(Entry)
  BY <1>1, <1>5, LinkFacts
<1>7. new \in Link /\ new.rest = told[l].rest \o quit
      /\ new.name = told[l].name /\ new.seat = told[l].seat
      /\ new.adopted = told[l].adopted /\ new.header = told[l].header /\ new.log = told[l].log
  <2>1. told[l].rest \o quit \in Seq(Entry)
    BY <1>3, <1>6
  <2> QED
    BY <1>6, <2>1 DEF Link
<1> HIDE DEF new
<1>8. links' \in Seq(Link) /\ DOMAIN links' = DOMAIN links
      /\ links'[l] = new /\ \A k \in DOMAIN links : k # l => links'[k] = told[k]
  <2>1. l \in 1..Len(told)
    BY <1>1, <1>5
  <2>2. [told EXCEPT ![l] = new] \in Seq(Link)
    BY <1>5, <1>7, <2>1, ExceptSeq
  <2> QED
    BY <1>1, <1>4, <1>5, <2>2
<1>9. \A k \in DOMAIN links :
         /\ links'[k].name = links[k].name /\ links'[k].seat = links[k].seat
         /\ links'[k].adopted = links[k].adopted /\ links'[k].header = links[k].header
         /\ links'[k].log = told[k].log
  <2> SUFFICES ASSUME NEW k \in DOMAIN links
               PROVE  /\ links'[k].name = links[k].name /\ links'[k].seat = links[k].seat
                      /\ links'[k].adopted = links[k].adopted
                      /\ links'[k].header = links[k].header
                      /\ links'[k].log = told[k].log
    OBVIOUS
  <2>1. /\ told[k].name = links[k].name /\ told[k].seat = links[k].seat
        /\ told[k].adopted = links[k].adopted /\ told[k].header = links[k].header
    BY <1>5 DEF Receives
  <2>2. CASE k = l
    BY <1>7, <1>8, <2>1, <2>2
  <2>3. CASE k # l
    BY <1>8, <2>1, <2>3
  <2> QED
    BY <2>2, <2>3
<1> QED
  BY <1>1, <1>7, <1>8, <1>9 DEF told, l, ms, quit

\* A client that leaves, is kicked, or is silent (Kill, with or without a Quit on the link)
\* preserves it.
LEMMA LeavePreserves ==
    ASSUME IndInv, NEW i \in DOMAIN players, NEW flush \in BOOLEAN,
           players[i].clientLink # NoLink, Leave(i, flush),
           UNCHANGED <<config, teams, canReconnect, game, quitServer>>
    PROVE  IndInv'
<1> DEFINE m == Msg("PlayerLeft", i)
           told == Sent(links, players, <<m>>)
           l == players[i].clientLink
           gone == players[i].myState = "DISCONNECTING"
           quit == IF gone THEN <<>> ELSE <<Msg("Quit", i)>>
           q == Killed(players[i], flush)
<1>1. /\ players \in Seq(Participant) /\ links \in Seq(Link) /\ history \in Seq(Entry)
      /\ DOMAIN players = 1..Len(players) /\ Len(players) \in Nat
      /\ DOMAIN links = 1..Len(links) /\ Len(links) \in Nat
  BY StateFacts
<1>2. i \in Nat /\ i <= Len(players) /\ players[i] \in Participant
  BY <1>1
<1>3. m \in Entry /\ m.seat = i /\ m.type = "PlayerLeft" /\ <<m>> \in Seq(Entry)
      /\ <<Msg("Quit", i)>> \in Seq(Entry)
  BY <1>2, MsgFacts DEF Types
<1>4. /\ Record(<<m>>, Cached(canReconnect', gameHasStarted))
      /\ players' = [players EXCEPT ![i] = q]
  BY DEF Leave
<1>5. CacheInv' /\ packetCache' \in Seq(Entry) /\ history' = history \o <<m>>
  BY <1>3, <1>4, CacheKept DEF IndInv, Shapes
<1>6. /\ links' \in Seq(Link) /\ DOMAIN links' = DOMAIN links /\ l \in DOMAIN links
      /\ \A k \in DOMAIN links :
           /\ k # l => links'[k] = told[k]
           /\ links'[k].seat = links[k].seat
           /\ links'[k].adopted = links[k].adopted /\ links'[k].header = links[k].header
           /\ links'[k].log = told[k].log
      /\ links'[l].rest = told[l].rest \o quit
  BY LeaveLinks
<1>7. /\ q \in Participant
      /\ q.isMidgameJoin = players[i].isMidgameJoin /\ q.spectator = players[i].spectator
      /\ ~q.loopback
      /\ \/ q.myState = "DISCONNECTING" /\ q.clientLink = l
         \/ q.myState = "DISCONNECTED" /\ q.clientLink = NoLink
  BY <1>2, KilledFacts
<1>8. /\ players' \in Seq(Participant) /\ DOMAIN players' = DOMAIN players
      /\ Len(players') = Len(players)
      /\ players'[i] = q /\ \A j \in DOMAIN players : j # i => players'[j] = players[j]
  BY <1>1, <1>4, <1>7, SeatChanged
<1>9. SeatInv(i)
  BY DEF IndInv
<1>10. gone => links[l].rest # <<>>
  BY <1>9 DEF SeatInv
<1>11. links[l].seat = i
  BY <1>9 DEF SeatInv
<1>12. ASSUME NEW k \in DOMAIN links
       PROVE  /\ StreamInv(links, players, history, k)
              /\ StreamInv(told, players, history', k)
              /\ links[k].rest # <<>> => told[k].rest # <<>>
              /\ ~links[k].adopted => told[k].rest = links[k].rest
  <2>1. StreamInv(links, players, history, k)
    BY DEF IndInv, LinkInv
  <2> DEFINE ms == <<m>>
  <2>2. ms \in Seq(Entry)
    BY <1>3
  <2> HIDE DEF ms
  <2>3. /\ StreamInv(Sent(links, players, ms), players, history \o ms, k)
        /\ links[k].rest # <<>> => Sent(links, players, ms)[k].rest # <<>>
        /\ ~links[k].adopted => Sent(links, players, ms)[k].rest = links[k].rest
    <3>1. links \in Seq(Link) /\ history \in Seq(Entry)
      BY <1>1
    <3>2. StreamInv(Sent(links, players, ms), players, history \o ms, k)
      BY <2>1, <2>2, <3>1, SentStreams
    <3>3. links[k].rest # <<>> => Sent(links, players, ms)[k].rest # <<>>
      BY <2>1, <2>2, <3>1, <3>2, SentStreams
    <3>4. ~links[k].adopted => Sent(links, players, ms)[k].rest = links[k].rest
      BY <2>1, <2>2, <3>1, <3>2, SentStreams
    <3> QED
      BY <3>2, <3>3, <3>4
  <2> QED
    BY <1>5, <2>1, <2>3 DEF ms
<1>13. told[l].rest \in Seq(Entry) /\ told[l].adopted = links[l].adopted /\ told[l].seat = links[l].seat
  <2> DEFINE ms == <<m>>
  <2>2. ms \in Seq(Entry)
    BY <1>3
  <2> HIDE DEF ms
  <2>4. /\ Sent(links, players, ms) \in Seq(Link)
        /\ DOMAIN Sent(links, players, ms) = DOMAIN links
        /\ \A k \in DOMAIN links :
              Receives(links[k], Sent(links, players, ms)[k], ms, Spoken(players, k))
    BY <1>1, <2>2, SentFacts, Zenon
  <2>3. Sent(links, players, ms) \in Seq(Link) /\ DOMAIN Sent(links, players, ms) = DOMAIN links
        /\ Receives(links[l], Sent(links, players, ms)[l], ms, Spoken(players, l))
    BY <1>6, <2>4, Zenon
  <2>1. told \in Seq(Link) /\ DOMAIN told = DOMAIN links
        /\ Receives(links[l], told[l], <<m>>, Spoken(players, l))
    BY <2>3 DEF ms
  <2> HIDE DEF told, l
  <2> QED
    BY <1>6, <2>1, LinkFacts DEF Receives
<1> HIDE DEF m, told, q
<1>14. ~Spoken(players', l)
  <2> SUFFICES ASSUME NEW j \in DOMAIN players', players'[j].clientLink = l,
                      players'[j].myState # "DISCONNECTING"
               PROVE  FALSE
    BY DEF Spoken
  <2>1. j # i
    BY <1>7, <1>8
  <2>2. players[j].clientLink = l /\ j \in DOMAIN players
    BY <1>8, <2>1
  <2> QED
    BY <2>1, <2>2, OneSeat
<1>15. links'[l].rest # <<>>
       /\ (~links[l].adopted => links'[l].rest = <<Msg("Quit", i)>>)
  <2>1. CASE gone
    <3>1. quit = <<>> /\ links'[l].rest = told[l].rest
      BY <1>6, <1>13, <2>1
    <3>2. ~links[l].adopted => links[l].rest \in {<<>>, <<Msg("Quit", i)>>}
      BY <1>6, <1>11, <1>12 DEF StreamInv
    <3> QED
      BY <1>6, <1>10, <1>12, <2>1, <3>1, <3>2
  <2>2. CASE ~gone
    <3>1. quit = <<Msg("Quit", i)>>
      BY <2>2
    <3>2. Spoken(players, l)
      BY <2>2 DEF Spoken
    <3>3. ~links[l].adopted => told[l].rest = <<>>
      BY <1>6, <1>12, <3>2 DEF StreamInv
    <3>4. told[l].rest \o <<Msg("Quit", i)>> # <<>>
      BY <1>3, <1>13
    <3>5. <<>> \o <<Msg("Quit", i)>> = <<Msg("Quit", i)>>
      BY <1>3
    <3> QED
      BY <1>6, <3>1, <3>3, <3>4, <3>5
  <2> QED
    BY <2>1, <2>2
<1>16. Shapes'
  <2>1. history' \in Seq(Entry)
    BY <1>1, <1>3, <1>5
  <2> QED
    <3>1. DOMAIN Script \subseteq DOMAIN players'
      BY <1>8 DEF IndInv, Shapes
    <3> QED
      BY <1>5, <1>6, <1>8, <2>1, <3>1 DEF IndInv, Shapes, config, game
<1>17. HistoryInv'
  <2>1. Len(players') \in Nat /\ Len(players) <= Len(players') /\ m.seat <= Len(players)
    BY <1>1, <1>2, <1>3, <1>8
  <2> QED
    BY <1>3, <1>5, <2>1, HistoryKept
<1>18. ASSUME NEW k \in DOMAIN links'
       PROVE  LinkInv(k)'
  <2>1. k \in DOMAIN links /\ links[k].seat \in DOMAIN players
    BY <1>6 DEF IndInv, LinkInv, HeaderInv
  <2>2. HeaderInv(k)'
    <3>1. LET j == links[k].seat IN
             /\ j \in DOMAIN players' /\ players'[j].isMidgameJoin = players[j].isMidgameJoin
             /\ players'[j].spectator = players[j].spectator
      BY <1>7, <1>8, <2>1
    <3>2. links'[k].seat = links[k].seat /\ links'[k].header = links[k].header
      BY <1>6, <2>1
    <3> QED
      BY <2>1, <3>1, <3>2, HeaderKept
  <2>3. CASE k = l
    <3>1. IsPrefix(told[l].log, history')
      BY <1>6, <1>12 DEF StreamInv
    <3>2. StreamInv(links', players', history', l)
      BY <1>6, <1>11, <1>14, <1>15, <3>1 DEF StreamInv
    <3> QED
      BY <2>2, <2>3, <3>2 DEF LinkInv
  <2>4. CASE k # l
    <3>1. k # NoLink
      BY <1>1, <2>1 DEF NoLink
    <3>2. Spoken(players', k) => Spoken(players, k)
      BY <1>7, <1>8, <2>4, <3>1 DEF Spoken
    <3>3. StreamInv(told, players', history', k)
      BY <1>12, <2>1, <3>2, FewerSpoken
    <3>4. StreamInv(links', players', history', k)
      BY <1>6, <2>1, <2>4, <3>3, StreamLocal
    <3> QED
      BY <2>2, <3>4 DEF LinkInv
  <2> QED
    BY <2>3, <2>4
<1>19. /\ \A j \in Nat : Tells(history', j) <=> Tells(history, j) /\ j # i
       /\ \A x : Mentions(history, x) => Mentions(history', x)
  <2>1. \A j \in Nat : Tells(history', j) <=>
           m = Msg("PlayerName", j) \/ (Tells(history, j) /\ m # Msg("PlayerLeft", j))
    BY <1>3, <1>5, HistoryTells
  <2>2. \A j \in Nat : m # Msg("PlayerName", j) /\ (m = Msg("PlayerLeft", j) <=> j = i)
    BY <1>2 DEF m, Msg
  <2> QED
    BY <1>3, <1>5, <2>1, <2>2, HistoryTells
<1>20. SeatInv(i)'
  <2>1. ~TakesPart(i)'
    BY <1>7, <1>8 DEF TakesPart
  <2>2. players'[i].clientLink # NoLink => players'[i].clientLink = l
    BY <1>7, <1>8
  <2>3. players'[i].clientLink # NoLink <=> players'[i].myState = "DISCONNECTING"
    BY <1>7, <1>8
  <2>4. players'[i].myState \in {"DISCONNECTING", "DISCONNECTED"} /\ ~players'[i].loopback
        /\ players'[i].isMidgameJoin = players[i].isMidgameJoin
    BY <1>7, <1>8
  <2>5. ~Tells(history', i) /\ (i > Len(Script) => Mentions(history', Msg("CreateNewPlayer", i)))
    BY <1>2, <1>9, <1>19 DEF SeatInv
  <2> QED
    BY <1>6, <1>9, <1>11, <1>15, <2>1, <2>2, <2>3, <2>4, <2>5 DEF SeatInv
<1>21. ASSUME NEW j \in DOMAIN players, j # i
       PROVE  SeatInv(j)'
  <2>1. SeatInv(j) /\ j \in Nat
    BY <1>1 DEF IndInv
  <2>2. SameSeat(players'[j], players[j])
    BY <1>8, <1>21 DEF SameSeat
  <2>3. players[j].clientLink # NoLink => players[j].clientLink \in DOMAIN links /\ players[j].clientLink # l
    BY <1>21, <2>1, OneSeat DEF SeatInv
  <2>4. \A k \in DOMAIN links : k # l => LinkKept(links[k], links'[k])
    BY <1>6, <1>12 DEF LinkKept
  <2> QED
    BY <1>6, <1>19, <1>21, <2>1, <2>2, <2>3, <2>4, SeatKept
<1> QED
  BY <1>5, <1>8, <1>16, <1>17, <1>18, <1>20, <1>21 DEF IndInv
-----------------------------------------------------------------------------
(* Joining                                                                 *)

\* What Establish finds: the seats pl, in which i has no link, after the broadcasts pre,
\* which end the presence of i and introduce it where that is needed.
Prepared(pl, i, pre) ==
    /\ pl \in Seq(Participant) /\ pre \in Seq(Entry) /\ i \in DOMAIN pl
    /\ DOMAIN players \subseteq DOMAIN pl /\ DOMAIN pl \subseteq DOMAIN players \cup {i}
    /\ \A j \in DOMAIN players :
          /\ j # i => pl[j] = players[j]
          /\ pl[j].isMidgameJoin = players[j].isMidgameJoin
          /\ pl[j].spectator = players[j].spectator
    /\ pl[i].clientLink = NoLink
    /\ pl[i].isMidgameJoin <=> i > Len(Script)
    /\ Introduces(history \o pre)
    /\ \A k \in DOMAIN (history \o pre) : (history \o pre)[k].seat <= Len(pl)
    /\ \A j \in DOMAIN pl : Tells(history \o pre, j) <=> j # i /\ Tells(history, j)
    /\ i > Len(Script) => Mentions(history \o pre, Msg("CreateNewPlayer", i))

\* The broadcasts that announce the team of a player that joins
Joins(i, p) == IF p.spectator THEN <<>> ELSE <<Msg("JoinTeam", i)>>

\* Announcing a team changes nothing for who is in the game.
LEMMA JoinsFacts ==
    ASSUME NEW i \in Nat, NEW p
    PROVE  /\ Joins(i, p) \in Seq(Entry)
           /\ \A h \in Seq(Entry) : \A j \in Nat : Tells(h \o Joins(i, p), j) <=> Tells(h, j)
           /\ Joins(i, p) = <<>> \/ Joins(i, p) = <<Msg("JoinTeam", i)>>
<1> DEFINE m == Msg("JoinTeam", i)
<1>1. m \in Entry /\ m.seat = i /\ m.type = "JoinTeam" /\ <<m>> \in Seq(Entry) /\ <<>> \in Seq(Entry)
  BY MsgFacts DEF Types
<1>2. Joins(i, p) = <<>> \/ Joins(i, p) = <<m>>
  BY DEF Joins
<1>3. \A j \in Nat : m # Msg("PlayerName", j) /\ m # Msg("PlayerLeft", j)
  BY DEF Msg
<1> HIDE DEF m
<1>4. \A h \in Seq(Entry) : \A j \in Nat : Tells(h \o <<m>>, j) <=> Tells(h, j)
  BY <1>1, <1>3, TellsNext
<1>5. \A h \in Seq(Entry) : h \o <<>> = h
  OBVIOUS
<1>6. \A h \in Seq(Entry) : \A j \in Nat : Tells(h \o Joins(i, p), j) <=> Tells(h, j)
  <2>1. CASE Joins(i, p) = <<>>
    BY <1>5, <2>1
  <2>2. CASE Joins(i, p) = <<m>>
    BY <1>4, <2>2
  <2> QED
    BY <1>2, <2>1, <2>2
<1> QED
  BY <1>1, <1>2, <1>6 DEF m

\* What Establish does to the seats
LEMMA EstablishSeats ==
    ASSUME NEW n, NEW i, NEW pl \in Seq(Participant), NEW pre, NEW client \in BOOLEAN,
           links \in Seq(Link), i \in DOMAIN pl, Establish(n, i, pl, pre, client)
    PROVE  /\ players' \in Seq(Participant) /\ DOMAIN players' = DOMAIN pl
           /\ \A j \in DOMAIN pl : j # i => players'[j] = pl[j]
           /\ players'[i].clientLink = Len(links) + 1 /\ players'[i].loopback
           /\ players'[i].myState = "CONNECTED"
           /\ players'[i].isMidgameJoin = pl[i].isMidgameJoin
           /\ players'[i].spectator = pl[i].spectator
<1> DEFINE reset == ~pl[i].spectator /\ pl[i].team \notin teams
           p == [pl[i] EXCEPT !.clientLink = Len(links) + 1, !.loopback = TRUE,
                              !.myState = "CONNECTED", !.client = client,
                              !.readyToStart = @ /\ ~reset]
<1>1. pl[i] \in Participant /\ Len(links) + 1 \in Nat /\ (pl[i].readyToStart /\ ~reset) \in BOOLEAN
  BY PlayerFacts
<1>2. players' = [pl EXCEPT ![i].clientLink = Len(links) + 1, ![i].loopback = TRUE,
                            ![i].myState = "CONNECTED", ![i].client = client,
                            ![i].readyToStart = @ /\ ~reset]
  BY DEF Establish
<1> HIDE DEF reset
<1>3. players' = [pl EXCEPT ![i] = p]
  <2>1. DOMAIN players' = DOMAIN pl /\ \A j \in DOMAIN pl : j # i => players'[j] = pl[j]
    BY <1>2
  <2>2. players'[i] = p
    BY <1>2
  <2>3. players' = [j \in DOMAIN pl |-> players'[j]]
    BY <1>2
  <2> HIDE DEF p
  <2> QED
    BY <2>1, <2>2, <2>3
<1>4. p \in Participant /\ p.clientLink = Len(links) + 1 /\ p.loopback
      /\ p.myState = "CONNECTED" /\ p.isMidgameJoin = pl[i].isMidgameJoin
      /\ p.spectator = pl[i].spectator
  BY <1>1 DEF Participant, States
<1> HIDE DEF p
<1> QED
  BY <1>3, <1>4, SeatChanged

\* What Establish broadcasts
LEMMA EstablishHistory ==
    ASSUME IndInv, NEW n, NEW i, NEW pl, NEW pre, NEW client,
           Prepared(pl, i, pre), Establish(n, i, pl, pre, client), UNCHANGED <<config, game>>,
           packetCache = history, Cached(canReconnect, gameHasStarted),
           canReconnect => canReconnect'
    PROVE  /\ CacheInv' /\ packetCache' = history' /\ history' \in Seq(Entry)
           /\ history' = history \o (pre \o Joins(i, pl[i]))
           /\ history' = (history \o pre) \o Joins(i, pl[i])
           /\ history \o pre \in Seq(Entry) /\ Joins(i, pl[i]) \in Seq(Entry)
<1> DEFINE joins == Joins(i, pl[i])
           both == pre \o joins
<1>1. pl \in Seq(Participant) /\ pre \in Seq(Entry) /\ i \in DOMAIN pl /\ history \in Seq(Entry)
  BY StateFacts DEF Prepared
<1>2. i \in Nat
  BY <1>1
<1>3. joins \in Seq(Entry)
  BY <1>2, JoinsFacts
<1>4. Record(both, Cached(canReconnect', gameHasStarted))
  BY DEF Establish, Joins
<1> HIDE DEF joins
<1>5. both \in Seq(Entry) /\ history \o both \in Seq(Entry) /\ history \o pre \in Seq(Entry)
  BY <1>1, <1>3
<1>6. history \o both = (history \o pre) \o joins
  <2>1. history \in Seq(Entry) /\ pre \in Seq(Entry) /\ joins \in Seq(Entry)
    BY <1>1, <1>3
  <2>2. \A a, b, c \in Seq(Entry) : (a \o b) \o c = a \o (b \o c)
    BY ConcatAssociative
  <2>3. (history \o pre) \o joins = history \o (pre \o joins)
    BY <2>1, <2>2, Zenon
  <2> QED
    BY <2>3
<1>7. Cached(canReconnect', gameHasStarted)
  BY DEF Cached
<1> HIDE DEF both
<1>8. CacheInv' /\ history' = history \o both /\ packetCache' = history'
  BY <1>4, <1>5, <1>7, CacheKept
<1> QED
  BY <1>3, <1>5, <1>6, <1>8 DEF both, joins

\* A link of seat i, which is p, on which everything was sent and nothing else
NewLink(link, i, p, h) ==
    /\ link.seat = i /\ link.adopted = FALSE
    /\ link.header = Header(i, p) /\ link.log = h /\ link.rest = <<>>

\* What Establish sends on each link, and the new one
LEMMA EstablishLinks ==
    ASSUME IndInv, NEW n \in Names, NEW i, NEW pl, NEW pre, NEW client,
           Prepared(pl, i, pre), Establish(n, i, pl, pre, client),
           history' = (history \o pre) \o Joins(i, pl[i]),
           packetCache' = history', history' \in Seq(Entry), history \o pre \in Seq(Entry)
    PROVE  /\ links' \in Seq(Link) /\ Len(links') = Len(links) + 1
           /\ \A l \in DOMAIN links :
                /\ links'[l].seat = links[l].seat /\ links'[l].adopted = links[l].adopted
                /\ links'[l].header = links[l].header
                /\ links[l].rest # <<>> => links'[l].rest # <<>>
                /\ StreamInv(links', pl, history', l)
                /\ ~(Spoken(players, l) /\ ~links[l].adopted) => links'[l].log = links[l].log
                /\ \/ links'[l].log = links[l].log
                   \/ Spoken(players, l) /\ ~links[l].adopted
                      /\ links'[l].log \in {history \o pre, history'}
           /\ NewLink(links'[Len(links) + 1], i, pl[i], history')
<1> DEFINE joins == Joins(i, pl[i])
           once == Sent(links, players, pre)
           twice == Sent(once, pl, joins)
           h == history \o pre
           new == [name |-> n, seat |-> i, adopted |-> FALSE,
                   header |-> Header(i, pl[i]), log |-> packetCache', rest |-> <<>>]
<1>1. /\ pl \in Seq(Participant) /\ pre \in Seq(Entry) /\ i \in DOMAIN pl /\ i \in Nat
      /\ history \in Seq(Entry) /\ links \in Seq(Link) /\ DOMAIN links = 1..Len(links)
      /\ Len(links) \in Nat
  BY StateFacts DEF Prepared
<1>2. joins \in Seq(Entry)
  BY <1>1, JoinsFacts
<1>3. Header(i, pl[i]) \in Seq(Entry)
  <2>1. pl[i] \in Participant
    BY <1>1, PlayerFacts
  <2> QED
    BY <1>1, <2>1, HeaderFacts
<1>4. new \in Link
  <2>1. <<>> \in Seq(Entry)
    OBVIOUS
  <2> QED
    BY <1>1, <1>3, <2>1 DEF Link
<1>5. links' = Append(twice, new)
  BY DEF Establish, Joins
<1> HIDE DEF joins
<1>6. /\ once \in Seq(Link) /\ DOMAIN once = DOMAIN links /\ Len(once) = Len(links)
      /\ \A l \in DOMAIN links : Receives(links[l], once[l], pre, Spoken(players, l))
  BY <1>1, SentFacts
<1>7. ASSUME NEW l \in DOMAIN links
      PROVE  /\ StreamInv(once, players, h, l)
             /\ ~(Spoken(players, l) /\ ~links[l].adopted) => once[l].log = links[l].log
             /\ links[l].rest # <<>> => once[l].rest # <<>>
  <2>1. StreamInv(links, players, history, l)
    BY DEF IndInv, LinkInv
  <2>2. StreamInv(Sent(links, players, pre), players, history \o pre, l)
    BY <1>1, <2>1, SentStreams
  <2> QED
    BY <1>1, <2>1, <2>2, SentStreams
<1>8. ASSUME NEW l \in DOMAIN links, Spoken(pl, l)
      PROVE  Spoken(players, l)
  <2>1. PICK j \in DOMAIN pl : pl[j].clientLink = l /\ pl[j].myState # "DISCONNECTING"
    BY <1>8 DEF Spoken
  <2>2. l # NoLink
    BY <1>1 DEF NoLink
  <2>3. j \in DOMAIN players /\ pl[j] = players[j]
    BY <2>1, <2>2 DEF Prepared
  <2> QED
    BY <2>1, <2>3 DEF Spoken
<1>9. \A l \in DOMAIN links : StreamInv(once, pl, h, l)
  BY <1>7, <1>8, FewerSpoken
<1> HIDE DEF once
<1>10. /\ twice \in Seq(Link) /\ DOMAIN twice = DOMAIN links /\ Len(twice) = Len(links)
       /\ \A l \in DOMAIN links : Receives(once[l], twice[l], joins, Spoken(pl, l))
  BY <1>2, <1>6, SentFacts
<1>11. ASSUME NEW l \in DOMAIN links
       PROVE  /\ StreamInv(twice, pl, history', l)
              /\ ~(Spoken(pl, l) /\ ~once[l].adopted) => twice[l].log = once[l].log
              /\ once[l].rest # <<>> => twice[l].rest # <<>>
  <2>1. StreamInv(once, pl, h, l) /\ l \in DOMAIN once /\ h \in Seq(Entry)
    BY <1>6, <1>9
  <2> HIDE DEF h
  <2>2. StreamInv(Sent(once, pl, joins), pl, h \o joins, l)
    BY <1>2, <1>6, <2>1, SentStreams
  <2>3. /\ ~(Spoken(pl, l) /\ ~once[l].adopted) => twice[l].log = once[l].log
        /\ once[l].rest # <<>> => twice[l].rest # <<>>
    BY <1>2, <1>6, <2>1, <2>2, SentStreams
  <2> QED
    BY <2>2, <2>3 DEF h, joins
<1> HIDE DEF twice, new, h
<1>12. links' \in Seq(Link) /\ Len(links') = Len(links) + 1
       /\ links'[Len(links) + 1] = new /\ \A l \in DOMAIN links : links'[l] = twice[l]
  BY <1>1, <1>4, <1>5, <1>10
<1>13. ASSUME NEW l \in DOMAIN links
       PROVE  /\ links'[l].seat = links[l].seat /\ links'[l].adopted = links[l].adopted
              /\ links'[l].header = links[l].header
              /\ links[l].rest # <<>> => links'[l].rest # <<>>
              /\ StreamInv(links', pl, history', l)
              /\ ~(Spoken(players, l) /\ ~links[l].adopted) => links'[l].log = links[l].log
              /\ \/ links'[l].log = links[l].log
                 \/ Spoken(players, l) /\ ~links[l].adopted
                    /\ links'[l].log \in {history \o pre, history'}
  <2>1. links'[l] = twice[l]
    BY <1>12
  <2>2. /\ once[l].seat = links[l].seat /\ once[l].adopted = links[l].adopted
        /\ once[l].header = links[l].header
    BY <1>6 DEF Receives
  <2>3. /\ twice[l].seat = once[l].seat /\ twice[l].adopted = once[l].adopted
        /\ twice[l].header = once[l].header
    BY <1>10 DEF Receives
  <2>4. StreamInv(links', pl, history', l)
    BY <1>11, <2>1, StreamLocal
  <2>5. ~(Spoken(players, l) /\ ~links[l].adopted) => twice[l].log = once[l].log /\ once[l].log = links[l].log
    BY <1>7, <1>8, <1>11, <2>2
  <2>6. CASE Spoken(players, l) /\ ~links[l].adopted
    <3>1. once[l].log = history \o pre
      BY <1>7, <2>2, <2>6 DEF StreamInv, h
    <3>2. twice[l].log = once[l].log \/ twice[l].log = history'
      BY <1>11, <2>3 DEF StreamInv
    <3> QED
      BY <1>7, <1>11, <2>1, <2>2, <2>3, <2>4, <2>6, <3>1, <3>2
  <2>7. CASE ~(Spoken(players, l) /\ ~links[l].adopted)
    BY <1>7, <1>11, <2>1, <2>2, <2>3, <2>4, <2>5, <2>7
  <2> QED
    BY <2>6, <2>7
<1>14. NewLink(new, i, pl[i], history')
  BY DEF new, NewLink
<1> QED
  BY <1>12, <1>13, <1>14

\* What Establish broadcasts of the seat that joins was introduced, and tells nothing new.
LEMMA EstablishTells ==
    ASSUME IndInv, NEW i, NEW pl, NEW pre, Prepared(pl, i, pre),
           history' = (history \o pre) \o Joins(i, pl[i]),
           history \o pre \in Seq(Entry), DOMAIN players' = DOMAIN pl, Len(players') = Len(pl)
    PROVE  /\ HistoryInv'
           /\ \A j \in DOMAIN pl : Tells(history', j) <=> j # i /\ Tells(history, j)
           /\ \A x : Mentions(history, x) => Mentions(history', x)
           /\ i > Len(Script) => Mentions(history', Msg("CreateNewPlayer", i))
<1> DEFINE joins == Joins(i, pl[i])
           h == history \o pre
           m == Msg("JoinTeam", i)
<1>1. /\ pl \in Seq(Participant) /\ DOMAIN pl = 1..Len(pl) /\ Len(pl) \in Nat
      /\ i \in 1..Len(pl) /\ h \in Seq(Entry)
      /\ history \in Seq(Entry) /\ pre \in Seq(Entry)
  BY StateFacts DEF Prepared
<1>2. joins \in Seq(Entry) /\ (joins = <<>> \/ joins = <<m>>) /\ i \in Nat
  BY <1>1, JoinsFacts
<1>3. m.seat = i
  BY <1>2, MsgFacts DEF Types
<1>4. \A k \in DOMAIN joins : joins[k].seat = i
  BY <1>2, <1>3
<1>5. i > Len(Script) => Mentions(h, Msg("CreateNewPlayer", i))
  BY DEF Prepared
<1>6. Introduces(h) /\ \A k \in DOMAIN h : h[k].seat <= Len(pl)
  BY DEF Prepared
<1>7. \A j \in DOMAIN pl : Tells(h, j) <=> j # i /\ Tells(history, j)
  BY DEF Prepared
<1>8. \A x : (Mentions(h, x) <=> Mentions(history, x) \/ Mentions(pre, x))
  BY <1>1, MentionsConcat
<1> HIDE DEF h
<1>9. \A j \in Nat : Tells(h \o joins, j) <=> Tells(h, j)
  BY <1>1, <1>2, JoinsFacts
<1> HIDE DEF joins, m
<1>10. Introduces(h \o joins)
  <2>1. \A k \in DOMAIN joins : joins[k].seat > Len(Script) =>
           Mentions(h, Msg("CreateNewPlayer", joins[k].seat))
    BY <1>4, <1>5
  <2> QED
    BY <1>1, <1>2, <1>6, <2>1, IntroducesConcat
<1>11. \A k \in DOMAIN (h \o joins) : (h \o joins)[k].seat <= Len(pl)
  <2>1. i <= Len(pl)
    BY <1>1
  <2>2. \A k \in DOMAIN (h \o joins) :
           \/ k \in DOMAIN h /\ (h \o joins)[k] = h[k]
           \/ \E x \in DOMAIN joins : (h \o joins)[k] = joins[x]
    <3>1. DOMAIN h = 1..Len(h) /\ DOMAIN joins = 1..Len(joins) /\ Len(h) \in Nat /\ Len(joins) \in Nat
      BY <1>1, <1>2
    <3>2. /\ DOMAIN (h \o joins) = 1..(Len(h) + Len(joins))
          /\ \A k \in 1..Len(h) : (h \o joins)[k] = h[k]
          /\ \A k \in (Len(h) + 1)..(Len(h) + Len(joins)) :
                k - Len(h) \in 1..Len(joins) /\ (h \o joins)[k] = joins[k - Len(h)]
      BY <1>1, <1>2, ConcatFacts
    <3>3. \A k \in 1..(Len(h) + Len(joins)) : k \in 1..Len(h) \/ k \in (Len(h) + 1)..(Len(h) + Len(joins))
      BY <3>1
    <3> QED
      BY <3>1, <3>2, <3>3
  <2> QED
    BY <1>4, <1>6, <2>1, <2>2
<1>12. \A x : Mentions(h \o joins, x) <=> Mentions(h, x) \/ Mentions(joins, x)
  BY <1>1, <1>2, MentionsConcat
<1>13. history' = h \o joins
  BY DEF h, joins
<1>14. HistoryInv'
  BY <1>10, <1>11, <1>13 DEF HistoryInv
<1>15. \A j \in DOMAIN pl : Tells(history', j) <=> j # i /\ Tells(history, j)
  BY <1>1, <1>7, <1>9, <1>13
<1>16. /\ \A x : Mentions(history, x) => Mentions(history', x)
       /\ i > Len(Script) => Mentions(history', Msg("CreateNewPlayer", i))
  BY <1>5, <1>8, <1>12, <1>13
<1> QED
  BY <1>14, <1>15, <1>16

\* A seat that was prepared gets its link with all that was broadcast.
LEMMA EstablishPreserves ==
    ASSUME IndInv, NEW n \in Names, NEW i, NEW pl, NEW pre, NEW client \in BOOLEAN,
           Prepared(pl, i, pre), Establish(n, i, pl, pre, client),
           UNCHANGED <<config, game, quitServer>>, canReconnect' \in BOOLEAN,
           packetCache = history, Cached(canReconnect, gameHasStarted),
           canReconnect => canReconnect'
    PROVE  IndInv'
<1>0. PICK L : L = Len(links) + 1
  OBVIOUS
<1>1. /\ players \in Seq(Participant) /\ DOMAIN players = 1..Len(players) /\ Len(players) \in Nat
      /\ links \in Seq(Link) /\ DOMAIN links = 1..Len(links) /\ Len(links) \in Nat
  BY StateFacts
<1>2. /\ pl \in Seq(Participant) /\ DOMAIN pl = 1..Len(pl) /\ Len(pl) \in Nat /\ i \in DOMAIN pl
  BY DEF Prepared
<1>3. /\ CacheInv' /\ packetCache' = history' /\ history' \in Seq(Entry)
      /\ history' = (history \o pre) \o Joins(i, pl[i])
      /\ history \o pre \in Seq(Entry)
  BY EstablishHistory
<1>4. /\ players' \in Seq(Participant) /\ DOMAIN players' = DOMAIN pl
      /\ \A j \in DOMAIN pl : j # i => players'[j] = pl[j]
      /\ players'[i].clientLink = L /\ players'[i].loopback
      /\ players'[i].myState = "CONNECTED"
      /\ players'[i].isMidgameJoin = pl[i].isMidgameJoin
      /\ players'[i].spectator = pl[i].spectator
  BY <1>0, <1>1, <1>2, EstablishSeats
<1>5. /\ links' \in Seq(Link) /\ Len(links') = L
      /\ \A l \in DOMAIN links :
           /\ links'[l].seat = links[l].seat /\ links'[l].adopted = links[l].adopted
           /\ links'[l].header = links[l].header
           /\ links[l].rest # <<>> => links'[l].rest # <<>>
           /\ StreamInv(links', pl, history', l)
  BY <1>0, <1>3, EstablishLinks
<1>6. /\ links'[L].seat = i /\ ~links'[L].adopted /\ links'[L].header = Header(i, pl[i])
      /\ links'[L].log = history' /\ links'[L].rest = <<>>
  <2>1. NewLink(links'[Len(links) + 1], i, pl[i], history')
    BY <1>3, EstablishLinks
  <2> QED
    BY <1>0, <2>1 DEF NewLink
<1>7. Len(players') = Len(pl)
  BY <1>2, <1>4
<1>8. /\ HistoryInv'
      /\ \A j \in DOMAIN pl : Tells(history', j) <=> j # i /\ Tells(history, j)
      /\ \A x : Mentions(history, x) => Mentions(history', x)
      /\ i > Len(Script) => Mentions(history', Msg("CreateNewPlayer", i))
  BY <1>3, <1>4, <1>7, EstablishTells
<1>9. DOMAIN links' = 1..L /\ L \in Nat /\ L # NoLink /\ L \notin DOMAIN links /\ L \in DOMAIN links'
  BY <1>0, <1>1, <1>5 DEF NoLink
<1>10. teams' \subseteq Nat
  <2>1. teams \subseteq Nat /\ pl[i].team \in Nat
    BY <1>2, PlayerFacts DEF IndInv, Shapes
  <2> QED
    BY <2>1 DEF Establish
<1>11. Shapes'
  <2>1. DOMAIN Script \subseteq DOMAIN players'
    BY <1>4 DEF IndInv, Shapes, Prepared
  <2> QED
    BY <1>3, <1>4, <1>5, <1>10, <2>1 DEF IndInv, Shapes, config, game
<1>12. \A j \in DOMAIN players : j # i => pl[j] = players[j] /\ players'[j] = players[j]
  BY <1>4 DEF Prepared
<1>13. \A j \in DOMAIN players :
          /\ j \in DOMAIN players'
          /\ players'[j].isMidgameJoin = players[j].isMidgameJoin
          /\ players'[j].spectator = players[j].spectator
  BY <1>4, <1>12 DEF Prepared
<1>14. ASSUME NEW l \in DOMAIN links
       PROVE  LinkInv(l)'
  <2>1. l # NoLink /\ l # L /\ links[l].seat \in DOMAIN players
    BY <1>1, <1>9 DEF NoLink, IndInv, LinkInv, HeaderInv
  <2>2. Spoken(players', l) => Spoken(pl, l)
    BY <1>4, <2>1 DEF Spoken
  <2>3. StreamInv(links', players', history', l)
    BY <1>5, <2>2, FewerSpoken
  <2>4. HeaderInv(l)'
    BY <1>5, <1>13, <2>1, HeaderKept
  <2> QED
    BY <2>3, <2>4 DEF LinkInv
<1>15. LinkInv(L)'
  <2>1. HeaderInv(L)'
    <3>1. Header(i, players'[i]) = Header(i, pl[i])
      BY <1>4 DEF Header
    <3> QED
      BY <1>2, <1>4, <1>6, <3>1 DEF HeaderInv
  <2>2. IsPrefix(history', history')
    <3>1. Len(history') \in Nat
      BY <1>3
    <3> QED
      BY <3>1 DEF IsPrefix
  <2>3. StreamInv(links', players', history', L)
    BY <1>6, <2>2 DEF StreamInv
  <2> QED
    BY <2>1, <2>3 DEF LinkInv
<1>16. SeatInv(i)'
  <2>1. TakesPart(i)'
    BY <1>4, <1>6 DEF TakesPart
  <2>2. ~Tells(history', i)
    BY <1>2, <1>8
  <2>3. pl[i].isMidgameJoin <=> i > Len(Script)
    BY DEF Prepared
  <2>4. players'[i].isMidgameJoin <=> i > Len(Script)
    BY <1>4, <2>3
  <2>5. /\ players'[i].clientLink = L /\ players'[i].loopback /\ players'[i].myState = "CONNECTED"
        /\ links'[L].seat = i
    BY <1>4, <1>6
  <2> QED
    BY <1>8, <1>9, <2>1, <2>2, <2>4, <2>5 DEF SeatInv
<1>17. ASSUME NEW j \in DOMAIN players, j # i
       PROVE  SeatInv(j)'
  <2>1. SeatInv(j) /\ j \in DOMAIN pl
    BY DEF IndInv, Prepared
  <2>2. SameSeat(players'[j], players[j])
    BY <1>12, <1>17 DEF SameSeat
  <2>3. players[j].clientLink # NoLink => players[j].clientLink \in DOMAIN links
    BY <2>1 DEF SeatInv
  <2>4. \A k \in DOMAIN links : k \in DOMAIN links' /\ LinkKept(links[k], links'[k])
    BY <1>0, <1>1, <1>5, <1>9 DEF LinkKept
  <2> QED
    BY <1>8, <1>17, <2>1, <2>2, <2>3, <2>4, SeatKept
<1>18. DOMAIN players' \subseteq DOMAIN players \cup {i}
  BY <1>4 DEF Prepared
<1>19. DOMAIN links' \subseteq DOMAIN links \cup {L}
  BY <1>0, <1>1, <1>9
<1> QED
  BY <1>3, <1>8, <1>11, <1>14, <1>15, <1>16, <1>17, <1>18, <1>19 DEF IndInv

\* A seat of the script without a link is prepared.
LEMMA PreparedKnown ==
    ASSUME IndInv, NEW i \in DOMAIN players, players[i].clientLink = NoLink
    PROVE  Prepared(players, i, <<>>)
<1>1. /\ players \in Seq(Participant) /\ history \in Seq(Entry) /\ <<>> \in Seq(Entry)
      /\ DOMAIN players = 1..Len(players)
  BY StateFacts
<1>2. history \o <<>> = history
  BY <1>1
<1>3. SeatInv(i)
  BY DEF IndInv
<1>4. ~Tells(history, i)
  BY <1>3 DEF SeatInv
<1>5. Introduces(history) /\ \A k \in DOMAIN history : history[k].seat <= Len(players)
  BY DEF IndInv, HistoryInv
<1>6. /\ players[i].isMidgameJoin <=> i > Len(Script)
      /\ i > Len(Script) => Mentions(history, Msg("CreateNewPlayer", i))
  BY <1>3 DEF SeatInv
<1>7. \A j \in DOMAIN players : Tells(history, j) <=> j # i /\ Tells(history, j)
  BY <1>4
<1> HIDE DEF IndInv
<1> QED
  BY <1>1, <1>2, <1>5, <1>6, <1>7 DEF Prepared

\* A seat is prepared when its link is given up and its leaving broadcast.
LEMMA PreparedReplacing ==
    ASSUME IndInv, NEW i \in DOMAIN players
    PROVE  Prepared([players EXCEPT ![i] = Killed([@ EXCEPT !.clientLink = NoLink], FALSE)],
                    i, <<Msg("PlayerLeft", i)>>)
<1> DEFINE p == [players[i] EXCEPT !.clientLink = NoLink]
           q == Killed(p, FALSE)
           pl == [players EXCEPT ![i] = q]
           m == Msg("PlayerLeft", i)
           h == history \o <<m>>
<1>1. /\ players \in Seq(Participant) /\ history \in Seq(Entry)
      /\ DOMAIN players = 1..Len(players) /\ Len(players) \in Nat /\ i \in Nat
      /\ players[i] \in Participant
  BY StateFacts
<1>2. m \in Entry /\ m.seat = i /\ m.type = "PlayerLeft" /\ <<m>> \in Seq(Entry)
  BY <1>1, MsgFacts DEF Types
<1>3. p \in Participant /\ p.clientLink = NoLink /\ p.isMidgameJoin = players[i].isMidgameJoin
      /\ p.spectator = players[i].spectator
  BY <1>1 DEF Participant, NoLink
<1> HIDE DEF p
<1>4. q \in Participant /\ q.clientLink = NoLink /\ q.isMidgameJoin = players[i].isMidgameJoin
      /\ q.spectator = players[i].spectator
  BY <1>3, KilledFacts
<1> HIDE DEF q
<1>5. pl \in Seq(Participant) /\ DOMAIN pl = DOMAIN players /\ pl[i] = q
      /\ \A j \in DOMAIN players : j # i => pl[j] = players[j]
  BY <1>1, <1>4, SeatChanged
<1> HIDE DEF pl
<1>6. Len(pl) = Len(players)
  BY <1>1, <1>5
<1>7. SeatInv(i)
  BY DEF IndInv
<1>8. Introduces(history) /\ \A k \in DOMAIN history : history[k].seat <= Len(players)
  BY DEF IndInv, HistoryInv
<1>9. i > Len(Script) => Mentions(history, Msg("CreateNewPlayer", i))
  BY <1>7 DEF SeatInv
<1>10. DOMAIN <<m>> = 1..1 /\ <<m>>[1] = m
  OBVIOUS
<1>11. Introduces(h)
  <2>1. \A k \in DOMAIN <<m>> : <<m>>[k].seat > Len(Script) =>
           Mentions(history, Msg("CreateNewPlayer", <<m>>[k].seat))
    BY <1>2, <1>9, <1>10
  <2> HIDE DEF m
  <2> QED
    BY <1>1, <1>2, <1>8, <2>1, IntroducesConcat
<1>12. \A k \in DOMAIN h : h[k].seat <= Len(pl)
  <2>1. \A k \in DOMAIN h : (k \in DOMAIN history /\ h[k] = history[k]) \/ h[k] = m
    BY <1>1
  <2> QED
    BY <1>1, <1>2, <1>6, <1>8, <2>1
<1>13. \A j \in DOMAIN pl : Tells(h, j) <=> j # i /\ Tells(history, j)
  <2>1. \A j \in Nat : m # Msg("PlayerName", j) /\ (m = Msg("PlayerLeft", j) <=> j = i)
    BY <1>1 DEF Msg
  <2> HIDE DEF m
  <2>2. \A j \in Nat : Tells(h, j) <=>
           m = Msg("PlayerName", j) \/ (Tells(history, j) /\ m # Msg("PlayerLeft", j))
    BY <1>1, <1>2, TellsNext
  <2> QED
    BY <1>1, <1>5, <2>1, <2>2
<1>14. i > Len(Script) => Mentions(h, Msg("CreateNewPlayer", i))
  <2> HIDE DEF m
  <2>1. \A x : Mentions(h, x) <=> Mentions(history, x) \/ Mentions(<<m>>, x)
    BY <1>1, <1>2, MentionsConcat
  <2> QED
    BY <1>9, <2>1
<1>15. q.isMidgameJoin <=> i > Len(Script)
  BY <1>4, <1>7 DEF SeatInv
<1> HIDE DEF h, m
<1>16. Prepared(pl, i, <<m>>)
  <2>1. pl \in Seq(Participant) /\ <<m>> \in Seq(Entry) /\ i \in DOMAIN pl /\ DOMAIN pl = DOMAIN players
    BY <1>2, <1>5
  <2>2. \A j \in DOMAIN players :
           /\ j # i => pl[j] = players[j]
           /\ pl[j].isMidgameJoin = players[j].isMidgameJoin
           /\ pl[j].spectator = players[j].spectator
    BY <1>4, <1>5
  <2>3. pl[i].clientLink = NoLink /\ (pl[i].isMidgameJoin <=> i > Len(Script))
    BY <1>4, <1>5, <1>15
  <2> QED
    BY <2>1, <2>2, <2>3, <1>11, <1>12, <1>13, <1>14 DEF Prepared, h
<1>17. pl = [players EXCEPT ![i] = Killed([@ EXCEPT !.clientLink = NoLink], FALSE)]
  BY DEF pl, q, p
<1> QED
  BY <1>16, <1>17 DEF m

\* A new seat is prepared when it was introduced.
LEMMA PreparedUnknown ==
    ASSUME IndInv
    PROVE  Prepared(Append(players, Seat(Anonymous, TRUE, 0, TRUE)), Len(players) + 1,
                    <<Msg("CreateNewPlayer", Len(players) + 1)>>)
<1>0. PICK i : i = Len(players) + 1
  OBVIOUS
<1> DEFINE q == Seat(Anonymous, TRUE, 0, TRUE)
           pl == Append(players, q)
           m == Msg("CreateNewPlayer", i)
           h == history \o <<m>>
<1>1. /\ players \in Seq(Participant) /\ history \in Seq(Entry)
      /\ DOMAIN players = 1..Len(players) /\ Len(players) \in Nat /\ i \in Nat
      /\ DOMAIN history = 1..Len(history)
  BY <1>0, StateFacts
<1>2. m \in Entry /\ m.seat = i /\ m.type = "CreateNewPlayer" /\ <<m>> \in Seq(Entry)
  BY <1>1, MsgFacts DEF Types
<1>3. q \in Participant /\ q.clientLink = NoLink /\ q.isMidgameJoin
  BY DEF Seat, Participant, States, NoLink
<1> HIDE DEF q
<1>4. pl \in Seq(Participant) /\ DOMAIN pl = 1..i /\ Len(pl) = i /\ pl[i] = q
      /\ \A j \in DOMAIN players : j # i /\ pl[j] = players[j]
  BY <1>0, <1>1, <1>3
<1> HIDE DEF pl
<1>5. i > Len(Script)
  <2>1. 1..Len(Script) \subseteq 1..Len(players) /\ Len(Script) \in Nat
    BY <1>1, ScriptFacts DEF IndInv, Shapes
  <2>2. Len(Script) # 0 => Len(Script) \in 1..Len(players)
    BY <2>1
  <2> QED
    BY <1>0, <1>1, <2>1, <2>2
<1>6. Introduces(history) /\ \A k \in DOMAIN history : history[k].seat <= Len(players)
  BY DEF IndInv, HistoryInv
<1>7. DOMAIN <<m>> = 1..1 /\ <<m>>[1] = m
  OBVIOUS
<1>8. Introduces(h)
  <2>1. \A k \in DOMAIN <<m>> : \E j \in 1..k : <<m>>[j] = Msg("CreateNewPlayer", <<m>>[k].seat)
    BY <1>2, <1>7
  <2> HIDE DEF m
  <2> QED
    BY <1>1, <1>2, <1>6, <2>1, IntroducesConcat
<1>9. \A k \in DOMAIN h : h[k].seat <= Len(pl)
  <2>1. \A k \in DOMAIN h : (k \in DOMAIN history /\ h[k] = history[k]) \/ h[k] = m
    BY <1>1
  <2>2. \A k \in DOMAIN history : history[k].seat \in Nat
    <3>1. \A e \in Entry : e.seat \in Nat
      BY DEF Entry
    <3>2. \A k \in DOMAIN history : history[k] \in Entry
      BY <1>1
    <3> QED
      BY <3>1, <3>2
  <2> QED
    BY <1>0, <1>1, <1>2, <1>4, <1>6, <2>1, <2>2
<1>10. ~Tells(history, i)
  <2>1. ASSUME NEW k \in DOMAIN history, history[k] = Msg("PlayerName", i)
        PROVE  FALSE
    <3>1. history[k].seat = i
      BY <2>1 DEF Msg
    <3> QED
      BY <1>0, <1>1, <1>6, <3>1
  <2> QED
    BY <2>1 DEF Tells
<1>11. \A j \in DOMAIN pl : Tells(h, j) <=> j # i /\ Tells(history, j)
  <2>1. \A j \in Nat : m # Msg("PlayerName", j) /\ m # Msg("PlayerLeft", j)
    BY DEF Msg
  <2> HIDE DEF m
  <2>2. \A j \in Nat : Tells(h, j) <=>
           m = Msg("PlayerName", j) \/ (Tells(history, j) /\ m # Msg("PlayerLeft", j))
    BY <1>1, <1>2, TellsNext
  <2> QED
    BY <1>1, <1>4, <1>10, <2>1, <2>2
<1>12. Mentions(h, m)
  <2> DEFINE ms == <<m>>
  <2>1. ms \in Seq(Entry) /\ Mentions(ms, m)
    BY <1>2 DEF Mentions
  <2> HIDE DEF ms
  <2>2. Mentions(history \o ms, m) <=> Mentions(history, m) \/ Mentions(ms, m)
    BY <1>1, <2>1, MentionsConcat
  <2> QED
    BY <2>1, <2>2 DEF ms
<1> HIDE DEF h
<1>13. Prepared(pl, i, <<m>>)
  <2>1. pl \in Seq(Participant) /\ <<m>> \in Seq(Entry) /\ i \in DOMAIN pl
        /\ DOMAIN players \subseteq DOMAIN pl /\ DOMAIN pl \subseteq DOMAIN players \cup {i}
    BY <1>0, <1>1, <1>2, <1>4
  <2>2. \A j \in DOMAIN players :
           /\ j # i => pl[j] = players[j]
           /\ pl[j].isMidgameJoin = players[j].isMidgameJoin
           /\ pl[j].spectator = players[j].spectator
    BY <1>4
  <2>3. pl[i].clientLink = NoLink /\ (pl[i].isMidgameJoin <=> i > Len(Script))
    BY <1>3, <1>4, <1>5
  <2>4. i > Len(Script) => Mentions(h, Msg("CreateNewPlayer", i))
    BY <1>12
  <2> HIDE DEF m
  <2> QED
    BY <2>1, <2>2, <2>3, <2>4, <1>8, <1>9, <1>11 DEF Prepared, h
<1> QED
  BY <1>0, <1>13 DEF pl, q, m

\* The setting of canReconnect only ever goes up.
LEMMA ReconnectFacts ==
    ASSUME IndInv, NEW n, SetCanReconnect(n)
    PROVE  canReconnect' \in BOOLEAN /\ (canReconnect => canReconnect')
<1>1. canReconnect' = (canReconnect \/ (reconnectTimeout /\ n # Host))
  BY DEF SetCanReconnect
<1> QED
  BY <1>1

\* The ways to join preserve the invariant.
LEMMA BindKnownPreserves ==
    ASSUME IndInv, NEW n \in Names, BindKnown(n)
    PROVE  IndInv'
<1>1. MayConnect(n) /\ SetCanReconnect(n) /\ UNCHANGED <<config, game, quitServer>>
  BY DEF BindKnown
<1>2. PICK i \in Known(n) : players[i].clientLink = NoLink /\ Establish(n, i, players, <<>>, TRUE)
  BY DEF BindKnown
<1>3. i \in DOMAIN players
  BY DEF Known
<1>4. Prepared(players, i, <<>>)
  BY <1>2, <1>3, PreparedKnown
<1>5. packetCache = history /\ Cached(canReconnect, gameHasStarted)
  BY <1>1, CacheComplete
<1> QED
  BY <1>1, <1>2, <1>4, <1>5, ReconnectFacts, EstablishPreserves

\* BindConnection for a seat whose link was silent preserves the invariant.
LEMMA BindReplacingPreserves ==
    ASSUME IndInv, NEW n \in Names, BindReplacing(n)
    PROVE  IndInv'
<1>1. MayConnect(n) /\ SetCanReconnect(n) /\ UNCHANGED <<config, game, quitServer>>
  BY DEF BindReplacing
<1>2. PICK i \in Known(n) :
         Establish(n, i, [players EXCEPT ![i] = Killed([@ EXCEPT !.clientLink = NoLink], FALSE)],
                   <<Msg("PlayerLeft", i)>>, TRUE)
  BY DEF BindReplacing
<1>3. i \in DOMAIN players
  BY DEF Known
<1> DEFINE pl == [players EXCEPT ![i] = Killed([@ EXCEPT !.clientLink = NoLink], FALSE)]
           pre == <<Msg("PlayerLeft", i)>>
<1>4. Prepared(pl, i, pre)
  BY <1>3, PreparedReplacing
<1>5. packetCache = history /\ Cached(canReconnect, gameHasStarted)
  BY <1>1, CacheComplete
<1>6. Establish(n, i, pl, pre, TRUE)
  BY <1>2
<1> HIDE DEF pl, pre
<1> QED
  BY <1>1, <1>4, <1>5, <1>6, ReconnectFacts, EstablishPreserves

\* AddAdditionalUser with BindConnection preserves it.
LEMMA AddAdditionalUserPreserves ==
    ASSUME IndInv, NEW n \in Names, NEW client \in BOOLEAN, MayConnect(n) \/ MayReconnect(n),
           AddAdditionalUser(n, client)
    PROVE  IndInv'
<1> DEFINE i == Len(players) + 1
           pl == Append(players, Seat(Anonymous, TRUE, 0, TRUE))
           pre == <<Msg("CreateNewPlayer", i)>>
<1>1. SetCanReconnect(n) /\ UNCHANGED <<config, game, quitServer>> /\ Establish(n, i, pl, pre, client)
  BY DEF AddAdditionalUser
<1>2. Prepared(pl, i, pre)
  BY PreparedUnknown
<1>3. packetCache = history /\ Cached(canReconnect, gameHasStarted)
  BY CacheComplete
<1> HIDE DEF i, pl, pre
<1> QED
  BY <1>1, <1>2, <1>3, ReconnectFacts, EstablishPreserves

\* Nothing is sent or broadcast, and the seats of the others and the links' logs stay.
LEMMA QuietPreserves ==
    ASSUME IndInv, UNCHANGED <<config, teams, packetCache, history, game>>,
           canReconnect' \in BOOLEAN, canReconnect => canReconnect',
           canReconnect' => canReconnect \/ packetCache = history,
           quitServer' \in BOOLEAN,
           players' \in Seq(Participant), DOMAIN players' = DOMAIN players,
           links' \in Seq(Link), DOMAIN links' = DOMAIN links,
           \A l \in DOMAIN links :
               /\ links'[l].seat = links[l].seat /\ links'[l].header = links[l].header
               /\ StreamInv(links', players', history, l),
           \A i \in DOMAIN players :
               /\ players'[i].isMidgameJoin = players[i].isMidgameJoin
               /\ players'[i].spectator = players[i].spectator
               /\ SeatInv(i)'
    PROVE  IndInv'
<1>1. Shapes'
  BY DEF IndInv, Shapes, config, game
<1>2. CacheInv'
  <2>1. CacheInv
    BY DEF IndInv
  <2> QED
    BY <2>1 DEF CacheInv, Cached, config, game
<1>3. HistoryInv'
  <2>1. Len(players') = Len(players)
    BY StateFacts
  <2> QED
    BY <2>1 DEF IndInv, HistoryInv
<1>4. ASSUME NEW l \in DOMAIN links
      PROVE  LinkInv(l)'
  <2>1. links[l].seat \in DOMAIN players
    BY DEF IndInv, LinkInv, HeaderInv
  <2>2. HeaderInv(l)'
    BY <2>1, HeaderKept
  <2> QED
    BY <2>2 DEF LinkInv
<1> QED
  BY <1>1, <1>2, <1>3, <1>4 DEF IndInv

\* BindConnection that hands over a link with a Quit on it preserves it.
LEMMA BindLingeringPreserves ==
    ASSUME IndInv, NEW n \in Names, BindLingering(n)
    PROVE  IndInv'
<1>1. /\ MayConnect(n) /\ SetCanReconnect(n)
      /\ UNCHANGED <<config, teams, packetCache, game, quitServer, history>>
  BY DEF BindLingering
<1>2. PICK i \in Known(n) :
         /\ players[i].myState = "DISCONNECTING"
         /\ players' = [players EXCEPT ![i].myState = "CONNECTED", ![i].client = TRUE]
         /\ links' = [links EXCEPT ![players[i].clientLink].adopted = TRUE]
  BY DEF BindLingering
<1>3. PICK l : l = players[i].clientLink
  OBVIOUS
<1> DEFINE p == [players[i] EXCEPT !.myState = "CONNECTED", !.client = TRUE]
           new == [links[l] EXCEPT !.adopted = TRUE]
<1>4. /\ players \in Seq(Participant) /\ links \in Seq(Link) /\ history \in Seq(Entry)
      /\ DOMAIN links = 1..Len(links) /\ i \in DOMAIN players
  BY StateFacts DEF Known
<1>5. players[i] \in Participant
  BY <1>4
<1>6. SeatInv(i)
  BY <1>4 DEF IndInv
<1>7. /\ l # NoLink /\ l \in DOMAIN links /\ links[l].seat = i /\ links[l].rest # <<>>
      /\ ~players[i].loopback /\ ~Tells(history, i)
  BY <1>2, <1>3, <1>6 DEF SeatInv, TakesPart
<1>8. links[l] \in Link
  BY <1>4, <1>7, LinkFacts
<1>9. players' = [players EXCEPT ![i] = p] /\ links' = [links EXCEPT ![l] = new]
  <2>1. players' = [players EXCEPT ![i] = p]
    <3>1. DOMAIN players' = DOMAIN players /\ \A j \in DOMAIN players : j # i => players'[j] = players[j]
      BY <1>2
    <3>2. players'[i] = p
      BY <1>2, <1>4
    <3>3. players' = [j \in DOMAIN players |-> players'[j]]
      BY <1>2
    <3> HIDE DEF p
    <3> QED
      BY <3>1, <3>2, <3>3
  <2> QED
    BY <1>2, <1>3, <2>1
<1>10. p \in Participant /\ p.myState = "CONNECTED" /\ p.clientLink = players[i].clientLink
       /\ p.loopback = players[i].loopback /\ p.isMidgameJoin = players[i].isMidgameJoin
       /\ p.spectator = players[i].spectator
  BY <1>5 DEF Participant, States
<1>11. new \in Link /\ new.adopted /\ new.seat = links[l].seat /\ new.header = links[l].header
       /\ new.log = links[l].log /\ new.rest = links[l].rest
  BY <1>8 DEF Link
<1> HIDE DEF p, new
<1>12. players' \in Seq(Participant) /\ DOMAIN players' = DOMAIN players
       /\ players'[i] = p /\ \A j \in DOMAIN players : j # i => players'[j] = players[j]
  BY <1>4, <1>9, <1>10, SeatChanged
<1>13. links' \in Seq(Link) /\ DOMAIN links' = DOMAIN links
       /\ links'[l] = new /\ \A k \in DOMAIN links : k # l => links'[k] = links[k]
  <2>1. l \in 1..Len(links)
    BY <1>4, <1>7
  <2>2. [links EXCEPT ![l] = new] \in Seq(Link)
    BY <1>4, <1>11, <2>1, ExceptSeq
  <2> QED
    BY <1>7, <1>9, <2>2
<1>14. ASSUME NEW k \in DOMAIN links
       PROVE  StreamInv(links', players', history, k)
  <2>1. StreamInv(links, players, history, k)
    BY DEF IndInv, LinkInv
  <2>2. CASE k = l
    BY <1>7, <1>11, <1>13, <2>1, <2>2 DEF StreamInv
  <2>3. CASE k # l
    <3>1. Spoken(players', k) => Spoken(players, k)
      BY <1>3, <1>10, <1>12, <2>3 DEF Spoken
    <3> QED
      BY <1>13, <2>1, <2>3, <3>1, StreamLocal, FewerSpoken
  <2> QED
    BY <2>2, <2>3
<1>15. SeatInv(i)'
  <2>1. ~TakesPart(i)'
    BY <1>3, <1>10, <1>11, <1>12, <1>13 DEF TakesPart
  <2>2. /\ players'[i].clientLink = l /\ players'[i].myState = "CONNECTED"
        /\ ~players'[i].loopback /\ players'[i].isMidgameJoin = players[i].isMidgameJoin
    BY <1>3, <1>7, <1>10, <1>12
  <2>3. l \in DOMAIN links' /\ links'[l].seat = i
    BY <1>7, <1>11, <1>13
  <2>4. history' = history
    BY <1>1
  <2> QED
    BY <1>6, <1>7, <2>1, <2>2, <2>3, <2>4 DEF SeatInv
<1>16. ASSUME NEW j \in DOMAIN players, j # i
       PROVE  SeatInv(j)'
  <2>1. SeatInv(j)
    BY DEF IndInv
  <2>2. players[j].clientLink # NoLink => players[j].clientLink \in DOMAIN links /\ players[j].clientLink # l
    BY <1>3, <1>4, <1>16, <2>1, OneSeat DEF SeatInv
  <2>3. SameSeat(players'[j], players[j])
    BY <1>12, <1>16 DEF SameSeat
  <2>4. \A k \in DOMAIN links : k # l => LinkKept(links[k], links'[k])
    BY <1>13 DEF LinkKept
  <2> QED
    BY <1>1, <1>13, <2>2, <2>3, <2>4, SeatKept
<1>17. \A k \in DOMAIN links : links'[k].seat = links[k].seat /\ links'[k].header = links[k].header
  BY <1>11, <1>13
<1>18. \A j \in DOMAIN players :
          /\ players'[j].isMidgameJoin = players[j].isMidgameJoin
          /\ players'[j].spectator = players[j].spectator
          /\ SeatInv(j)'
  BY <1>10, <1>12, <1>15, <1>16
<1>19. packetCache = history /\ canReconnect' \in BOOLEAN /\ (canReconnect => canReconnect')
  BY <1>1, CacheComplete, ReconnectFacts
<1>20. quitServer' \in BOOLEAN
  BY <1>1 DEF IndInv, Shapes
<1> QED
  BY <1>1, <1>12, <1>13, <1>14, <1>17, <1>18, <1>19, <1>20, QuietPreserves

\* The link that lingered is closed.
LEMMA CheckForExpiredConnectionPreserves ==
    ASSUME IndInv, NEW i \in DOMAIN players, CheckForExpiredConnection(i)
    PROVE  IndInv'
<1> DEFINE p == [players[i] EXCEPT !.myState = "DISCONNECTED", !.clientLink = NoLink,
                                   !.client = FALSE]
<1>1. /\ players[i].myState = "DISCONNECTING"
      /\ UNCHANGED <<config, teams, links, packetCache, canReconnect, game, quitServer, history>>
      /\ players' = [players EXCEPT ![i].myState = "DISCONNECTED", ![i].clientLink = NoLink,
                                    ![i].client = FALSE]
  BY DEF CheckForExpiredConnection
<1>2. /\ players \in Seq(Participant) /\ links \in Seq(Link) /\ DOMAIN links = 1..Len(links)
      /\ players[i] \in Participant
  BY StateFacts
<1>3. players' = [players EXCEPT ![i] = p]
  <2>1. DOMAIN players' = DOMAIN players /\ \A j \in DOMAIN players : j # i => players'[j] = players[j]
    BY <1>1
  <2>2. players'[i] = p
    BY <1>1
  <2>3. players' = [j \in DOMAIN players |-> players'[j]]
    BY <1>1
  <2> HIDE DEF p
  <2> QED
    BY <2>1, <2>2, <2>3
<1>4. p \in Participant /\ p.myState = "DISCONNECTED" /\ p.clientLink = NoLink
      /\ p.loopback = players[i].loopback /\ p.isMidgameJoin = players[i].isMidgameJoin
      /\ p.spectator = players[i].spectator
  BY <1>2 DEF Participant, States, NoLink
<1> HIDE DEF p
<1>5. players' \in Seq(Participant) /\ DOMAIN players' = DOMAIN players
      /\ players'[i] = p /\ \A j \in DOMAIN players : j # i => players'[j] = players[j]
  BY <1>2, <1>3, <1>4, SeatChanged
<1>6. SeatInv(i)
  BY DEF IndInv
<1>7. ~players[i].loopback /\ ~Tells(history, i)
  BY <1>1, <1>6 DEF SeatInv, TakesPart
<1>8. ASSUME NEW k \in DOMAIN links
      PROVE  StreamInv(links', players', history, k)
  <2>1. StreamInv(links, players, history, k) /\ k # NoLink
    BY <1>2 DEF IndInv, LinkInv, NoLink
  <2>2. Spoken(players', k) => Spoken(players, k)
    BY <1>4, <1>5, <2>1 DEF Spoken
  <2> QED
    BY <1>1, <2>1, <2>2, FewerSpoken
<1>9. SeatInv(i)'
  <2>1. /\ ~TakesPart(i)' /\ ~players'[i].loopback
        /\ players'[i].clientLink = NoLink /\ players'[i].myState = "DISCONNECTED"
        /\ players'[i].isMidgameJoin = players[i].isMidgameJoin
    BY <1>4, <1>5, <1>7 DEF TakesPart
  <2> QED
    BY <1>1, <1>6, <1>7, <2>1 DEF SeatInv
<1>10. ASSUME NEW j \in DOMAIN players, j # i
       PROVE  SeatInv(j)'
  <2>1. SeatInv(j)
    BY DEF IndInv
  <2>2. SameSeat(players'[j], players[j])
    BY <1>5, <1>10 DEF SameSeat
  <2> QED
    BY <1>1, <2>1, <2>2, SeatKept DEF SeatInv, LinkKept
<1>11. \A j \in DOMAIN players :
          /\ players'[j].isMidgameJoin = players[j].isMidgameJoin
          /\ players'[j].spectator = players[j].spectator
          /\ SeatInv(j)'
  BY <1>4, <1>5, <1>9, <1>10
<1>12. canReconnect' \in BOOLEAN /\ quitServer' \in BOOLEAN
  BY <1>1 DEF IndInv, Shapes
<1> QED
  BY <1>1, <1>2, <1>5, <1>8, <1>11, <1>12, QuietPreserves

\* A client that ends without a word preserves it.
LEMMA ClientLostPreserves ==
    ASSUME IndInv, NEW i \in DOMAIN players, ClientLost(i)
    PROVE  IndInv'
<1> DEFINE p == [players[i] EXCEPT !.client = FALSE]
<1>1. /\ UNCHANGED <<config, teams, links, packetCache, canReconnect, game, quitServer, history>>
      /\ players' = [players EXCEPT ![i] = p]
  BY DEF ClientLost
<1>2. players \in Seq(Participant) /\ links \in Seq(Link) /\ players[i] \in Participant
  BY StateFacts
<1>3. p \in Participant /\ p.myState = players[i].myState /\ p.clientLink = players[i].clientLink
      /\ p.loopback = players[i].loopback /\ p.isMidgameJoin = players[i].isMidgameJoin
      /\ p.spectator = players[i].spectator
  BY <1>2 DEF Participant
<1> HIDE DEF p
<1>4. players' \in Seq(Participant) /\ DOMAIN players' = DOMAIN players
      /\ players'[i] = p /\ \A j \in DOMAIN players : j # i => players'[j] = players[j]
  BY <1>1, <1>2, <1>3, SeatChanged
<1>5. ASSUME NEW k \in DOMAIN links
      PROVE  StreamInv(links', players', history, k)
  <2>1. StreamInv(links, players, history, k)
    BY DEF IndInv, LinkInv
  <2>2. Spoken(players', k) => Spoken(players, k)
    BY <1>3, <1>4 DEF Spoken
  <2> QED
    BY <1>1, <2>1, <2>2, FewerSpoken
<1>6. ASSUME NEW j \in DOMAIN players
      PROVE  SeatInv(j)'
  <2>1. SeatInv(j)
    BY DEF IndInv
  <2>2. SameSeat(players'[j], players[j])
    BY <1>3, <1>4 DEF SameSeat
  <2> QED
    BY <1>1, <2>1, <2>2, SeatKept DEF SeatInv, LinkKept
<1>7. \A j \in DOMAIN players :
         /\ players'[j].isMidgameJoin = players[j].isMidgameJoin
         /\ players'[j].spectator = players[j].spectator
         /\ SeatInv(j)'
  BY <1>3, <1>4, <1>6
<1>8. canReconnect' \in BOOLEAN /\ quitServer' \in BOOLEAN
  BY <1>1 DEF IndInv, Shapes
<1> QED
  BY <1>1, <1>2, <1>4, <1>5, <1>7, <1>8, QuietPreserves

\* Nothing happens but that the server stops, or learns that somebody could reconnect.
LEMMA RefusalPreserves ==
    ASSUME IndInv,
           (\E n \in Names : Reject(n)) \/ NoClientsExit \/ UNCHANGED vars
    PROVE  IndInv'
<1>1. /\ UNCHANGED <<config, players, teams, links, packetCache, game, history>>
      /\ canReconnect' \in BOOLEAN /\ (canReconnect => canReconnect')
      /\ canReconnect' => canReconnect \/ packetCache = history
      /\ quitServer' \in BOOLEAN
  <2>1. canReconnect \in BOOLEAN /\ quitServer \in BOOLEAN
    BY DEF IndInv, Shapes
  <2>2. CASE \E n \in Names : Reject(n)
    <3>1. PICK n \in Names : Reject(n)
      BY <2>2
    <3>2. /\ MayConnect(n) /\ SetCanReconnect(n)
          /\ UNCHANGED <<config, players, teams, links, packetCache, game, quitServer, history>>
      BY <3>1 DEF Reject
    <3> QED
      BY <2>1, <3>2, CacheComplete, ReconnectFacts
  <2>3. CASE NoClientsExit
    BY <2>1, <2>3 DEF NoClientsExit
  <2>4. CASE UNCHANGED vars
    BY <2>1, <2>4 DEF vars
  <2> QED
    BY <2>2, <2>3, <2>4
<1>2. players \in Seq(Participant) /\ links \in Seq(Link)
  BY StateFacts
<1>3. \A l \in DOMAIN links : StreamInv(links', players', history, l)
  BY <1>1 DEF IndInv, LinkInv
<1>4. \A i \in DOMAIN players : SeatInv(i)'
  BY <1>1 DEF IndInv, SeatInv, TakesPart
<1> QED
  BY <1>1, <1>2, <1>3, <1>4, QuietPreserves

\* Every step preserves the invariant.
LEMMA NextIndInv == IndInv /\ [Next]_vars => IndInv'
<1> SUFFICES ASSUME IndInv, [Next]_vars
             PROVE  IndInv'
  OBVIOUS
<1>1. ASSUME NEW n \in Names, BindConnection(n)
      PROVE  IndInv'
  <2>1. CASE BindKnown(n)
    BY <2>1, BindKnownPreserves
  <2>2. CASE BindReplacing(n)
    BY <2>2, BindReplacingPreserves
  <2>3. CASE BindLingering(n)
    BY <2>3, BindLingeringPreserves
  <2>4. CASE BindUnknown(n)
    BY <2>4, AddAdditionalUserPreserves DEF BindUnknown
  <2>5. CASE Reconnect(n)
    BY <2>5, AddAdditionalUserPreserves DEF Reconnect
  <2>6. CASE Reject(n)
    BY <2>6, RefusalPreserves
  <2> QED
    BY <1>1, <2>1, <2>2, <2>3, <2>4, <2>5, <2>6 DEF BindConnection
<1>2. ASSUME NEW i \in DOMAIN players, ServerReadNet(i)
      PROVE  IndInv'
  <2>1. CASE PlayerName(i)
    BY <2>1, PlayerNamePreserves
  <2>2. CASE \E ready \in BOOLEAN : StartPos(i, ready)
    BY <2>2, StartPosPreserves
  <2>3. CASE Quit(i)
    BY <2>3, LeavePreserves DEF Quit, Reads, Connected
  <2>4. CASE KickPlayer(i)
    BY <2>4, LeavePreserves DEF KickPlayer, Connected
  <2>5. CASE Timeout(i)
    BY <2>5, LeavePreserves DEF Timeout
  <2> QED
    BY <1>2, <2>1, <2>2, <2>3, <2>4, <2>5 DEF ServerReadNet
<1>3. ASSUME Update
      PROVE  IndInv'
  <2>1. CASE \E late, forced \in BOOLEAN : CheckForGameStart(late, forced)
    BY <2>1, CheckForGameStartPreserves
  <2>2. CASE StartGame
    BY <2>2, StartGamePreserves
  <2>3. CASE NoClientsExit
    BY <2>3, RefusalPreserves
  <2>4. CASE Message
    BY <2>4, MessagePreserves
  <2>5. CASE \E i \in DOMAIN players : CheckForExpiredConnection(i)
    BY <2>5, CheckForExpiredConnectionPreserves
  <2> QED
    BY <1>3, <2>1, <2>2, <2>3, <2>4, <2>5 DEF Update
<1>4. CASE UNCHANGED vars
  BY <1>4, RefusalPreserves
<1> QED
  BY <1>1, <1>2, <1>3, <1>4, ClientLostPreserves DEF Next
-----------------------------------------------------------------------------
(* The properties                                                          *)

\* The inductive invariant holds in every state.
THEOREM Invariance == Spec => []IndInv
  BY InitIndInv, NextIndInv, PTL DEF Spec

\* The variables have their types.
THEOREM TypeCorrect == Spec => []TypeOK
  BY Invariance, TypesFollow, PTL

\* Whoever takes part has been sent its introduction and then every broadcast since the
\* server was started, once each and in order (BindConnection, GameParticipant::SendData).
THEOREM NothingMissed == Spec => []StreamComplete
<1>1. IndInv => StreamComplete
  <2> SUFFICES ASSUME IndInv, NEW i \in DOMAIN players, TakesPart(i)
               PROVE  OnWire(links[players[i].clientLink]) = Header(i, players[i]) \o history
    BY DEF StreamComplete
  <2> DEFINE l == players[i].clientLink
  <2>1. l \in DOMAIN links /\ links[l].seat = i /\ links[l].log = history /\ links[l].rest = <<>>
    BY TakesPartFacts
  <2>2. links[l].header = Header(i, players[i])
    BY <2>1 DEF IndInv, LinkInv, HeaderInv
  <2>3. links[l].header \in Seq(Entry) /\ history \in Seq(Entry)
    BY <2>1, StateFacts, LinkFacts
  <2> HIDE DEF l
  <2>4. (links[l].header \o history) \o <<>> = links[l].header \o history
    BY <2>3
  <2> QED
    BY <2>1, <2>2, <2>4 DEF OnWire, l
<1> QED
  BY <1>1, Invariance, PTL

\* A seat has a loopback link if and only if it has a connection of its own that is not
\* being closed (GameParticipant::SetLoopback and Kill).
THEOREM HeardWhileTold == Spec => []LoopbackIffConnected
<1>1. IndInv => LoopbackIffConnected
  BY DEF IndInv, SeatInv, LoopbackIffConnected
<1> QED
  BY <1>1, Invariance, PTL

\* The broadcasts tell who is in the game (NETMSG_PLAYERNAME, NETMSG_PLAYERLEFT).
THEOREM HistoryTrue == Spec => []HistoryTellsWhoIsIn
<1>1. IndInv => HistoryTellsWhoIsIn
  BY DEF IndInv, SeatInv, HistoryTellsWhoIsIn, Tells
<1> QED
  BY <1>1, Invariance, PTL

\* A prefix of messages that introduce whom they mention does so too.
LEMMA IntroducesPrefix ==
    ASSUME NEW a \in Seq(Entry), NEW b \in Seq(Entry), IsPrefix(a, b), Introduces(b)
    PROVE  Introduces(a)
<1>1. Len(a) <= Len(b) /\ \A k \in 1..Len(a) : a[k] = b[k]
  BY PrefixFacts
<1>2. /\ DOMAIN a = 1..Len(a) /\ DOMAIN b = 1..Len(b) /\ Len(a) \in Nat /\ Len(b) \in Nat
  OBVIOUS
<1>3. SUFFICES ASSUME NEW k \in 1..Len(a), a[k].seat > Len(Script)
               PROVE  \E j \in 1..k : a[j] = Msg("CreateNewPlayer", a[k].seat)
  BY <1>2 DEF Introduces
<1>4. k \in DOMAIN b /\ b[k] = a[k]
  BY <1>1, <1>2
<1>5. PICK j \in 1..k : b[j] = Msg("CreateNewPlayer", b[k].seat)
  BY <1>3, <1>4 DEF Introduces
<1>6. j \in 1..Len(a)
  BY <1>2
<1> QED
  BY <1>1, <1>4, <1>5, <1>6

\* On every link of one client, a seat that is not in the start script is introduced before
\* anything else is said of it (GameServer::AddAdditionalUser, BindConnection).
THEOREM IntroducedAlways == Spec => []IntroducedFirst
<1>1. IndInv => IntroducedFirst
  <2> SUFFICES ASSUME IndInv, NEW l \in DOMAIN links, ~links[l].adopted
               PROVE  Introduces(OnWire(links[l]))
    BY DEF IntroducedFirst, Introduces
  <2> DEFINE i == links[l].seat
             header == links[l].header
             log == links[l].log
             rest == links[l].rest
             said == header \o log
  <2>1. /\ header \in Seq(Entry) /\ log \in Seq(Entry) /\ rest \in Seq(Entry)
        /\ history \in Seq(Entry) /\ i \in Nat
    BY StateFacts, LinkFacts
  <2>2. StreamInv(links, players, history, l) /\ HeaderInv(l)
    BY DEF IndInv, LinkInv
  <2>3. i \in DOMAIN players /\ header = Header(i, players[i])
    BY <2>2 DEF HeaderInv
  <2>4. rest \in {<<>>, <<Msg("Quit", i)>>} /\ IsPrefix(log, history)
    BY <2>2 DEF StreamInv
  <2>5. /\ players[i] \in Participant
        /\ players[i].isMidgameJoin <=> i > Len(Script)
    BY <2>3, StateFacts, PlayerFacts DEF IndInv, SeatInv
  <2>6. Introduces(log)
    BY <2>1, <2>4, IntroducesPrefix DEF IndInv, HistoryInv
  <2>7. OnWire(links[l]) = said \o rest
    BY DEF OnWire
  <2> HIDE DEF i, header, log, rest
  <2>8. /\ \A k \in DOMAIN header : header[k].seat = i
        /\ i > Len(Script) => 1 \in DOMAIN header /\ header[1] = Msg("CreateNewPlayer", i)
    <3>1. PICK p : p = players[i]
      OBVIOUS
    <3>2. p \in Participant /\ (p.isMidgameJoin <=> i > Len(Script))
      BY <2>5, <3>1
    <3>3. \A k \in DOMAIN Header(i, p) : Header(i, p)[k].seat = i
      BY <2>1, <3>2, HeaderFacts
    <3>4. p.isMidgameJoin => 1 \in DOMAIN Header(i, p) /\ Header(i, p)[1] = Msg("CreateNewPlayer", i)
      BY <2>1, <3>2, HeaderFacts
    <3> QED
      BY <2>3, <3>1, <3>2, <3>3, <3>4
  <2>9. Introduces(header)
    <3>1. ASSUME NEW k \in DOMAIN header, header[k].seat > Len(Script)
          PROVE  \E j \in 1..k : header[j] = Msg("CreateNewPlayer", header[k].seat)
      <4>1. header[k].seat = i /\ header[1] = Msg("CreateNewPlayer", i)
        BY <2>8, <3>1
      <4>2. 1 \in 1..k
        BY <2>1
      <4> QED
        BY <4>1, <4>2
    <3> QED
      BY <3>1 DEF Introduces
  <2>10. Introduces(said)
    <3>1. \A k \in DOMAIN log : log[k].seat > Len(Script) =>
             \E j \in 1..k : log[j] = Msg("CreateNewPlayer", log[k].seat)
      BY <2>6 DEF Introduces
    <3> QED
      BY <2>1, <2>9, <3>1, IntroducesConcat
  <2>11. i > Len(Script) => Mentions(said, Msg("CreateNewPlayer", i))
    <3>1. i > Len(Script) => Mentions(header, Msg("CreateNewPlayer", i))
      BY <2>8 DEF Mentions
    <3>2. \A m : Mentions(said, m) <=> Mentions(header, m) \/ Mentions(log, m)
      BY <2>1, MentionsConcat
    <3> QED
      BY <3>1, <3>2
  <2>12. said \in Seq(Entry)
    BY <2>1
  <2>13. \A k \in DOMAIN rest : rest[k].seat = i
    <3>1. Msg("Quit", i).seat = i
      BY DEF Msg
    <3> QED
      BY <2>4, <3>1
  <2> HIDE DEF said
  <2>14. Introduces(said \o rest)
    <3>1. \A k \in DOMAIN rest : rest[k].seat > Len(Script) =>
             Mentions(said, Msg("CreateNewPlayer", rest[k].seat))
      BY <2>11, <2>13
    <3> QED
      BY <2>1, <2>10, <2>12, <3>1, IntroducesConcat
  <2> QED
    BY <2>7, <2>14
<1> QED
  BY <1>1, Invariance, PTL
-----------------------------------------------------------------------------
(* The refinement                                                          *)

\* Those who take part after a step did so before, on the same link, or have a new one.
OpenKept ==
    \A j \in DOMAIN players' : TakesPart(j)' =>
        \/ players'[j].clientLink \notin DOMAIN links
        \/ /\ j \in DOMAIN players /\ TakesPart(j)
           /\ players'[j].clientLink = players[j].clientLink

\* A log stays, or was complete and has got more.
LogKept(l) ==
    \/ links'[l].log = links[l].log
    \/ /\ Spoken(players, l) /\ ~links[l].adopted
       /\ IsPrefix(history, links'[l].log)

\* There is a log for each link.
LEMMA LogsFacts ==
    ASSUME NEW lk \in Seq(Link)
    PROVE  Len([l \in DOMAIN lk |-> lk[l].log]) = Len(lk)
<1> DEFINE logs == [l \in DOMAIN lk |-> lk[l].log]
<1>1. DOMAIN lk = 1..Len(lk) /\ Len(lk) \in Nat /\ \A l \in DOMAIN lk : lk[l].log \in Seq(Entry)
  BY LinkFacts
<1>2. logs \in Seq(Seq(Entry)) /\ DOMAIN logs = 1..Len(lk)
  BY <1>1
<1> HIDE DEF logs
<1>3. Len(logs) = Len(lk)
  BY <1>1, <1>2
<1> QED
  BY <1>3 DEF logs

\* The broadcasts of a step are what is new in the history.
LEMMA NewsFacts ==
    ASSUME NEW a \in Seq(Entry), NEW b \in Seq(Entry)
    PROVE  SubSeq(a \o b, Len(a) + 1, Len(a \o b)) = b
<1> DEFINE c == a \o b
           m == Len(a) + 1
           n == Len(c)
           s == SubSeq(c, m, n)
<1>1. Len(a) \in Nat /\ Len(b) \in Nat /\ c \in Seq(Entry) /\ Len(c) = Len(a) + Len(b)
      /\ DOMAIN c = 1..(Len(a) + Len(b))
      /\ \A k \in 1..Len(b) : c[Len(a) + k] = b[k]
  BY ConcatFacts
<1> HIDE DEF c
<1>2. m \in Int /\ n \in Int /\ m >= 1 /\ n - m + 1 = Len(b) /\ (m <= n <=> Len(b) # 0)
  BY <1>1
<1>3. \A k \in m..n : c[k] \in Entry
  <2>1. \A k \in m..n : k \in DOMAIN c
    BY <1>1
  <2> QED
    BY <1>1, <2>1
<1>4. \A k \in 1..Len(b) : m + k - 1 = Len(a) + k
  BY <1>1
<1> HIDE DEF m, n
<1>5. /\ SubSeq(c, m, n) \in Seq(Entry)
      /\ Len(SubSeq(c, m, n)) = IF m <= n THEN n - m + 1 ELSE 0
      /\ \A k \in 1..(n - m + 1) : SubSeq(c, m, n)[k] = c[m + k - 1]
  BY <1>2, <1>3, SubSeqProperties
<1>6. s \in Seq(Entry) /\ Len(s) = Len(b) /\ \A k \in 1..Len(s) : s[k] = b[k]
  BY <1>1, <1>2, <1>4, <1>5
<1> HIDE DEF s
<1>7. s = b
  BY <1>6, SeqEqual
<1> QED
  BY <1>7 DEF s, m, n, c

\* A step of the sessions of this kind is a step of JoinedLog.
LEMMA LogStep ==
    ASSUME IndInv, IndInv', NEW ms \in Seq(Entry), history' = history \o ms,
           \/ Len(links') = Len(links)
           \/ Len(links') = Len(links) + 1 /\ links'[Len(links) + 1].log = history',
           OpenKept, \A l \in DOMAIN links : LogKept(l)
    PROVE  Log!Next
<1> DEFINE streams == [l \in DOMAIN links |-> links[l].log]
           open == {players[i].clientLink : i \in {j \in DOMAIN players : TakesPart(j)}}
           new == [l \in DOMAIN links' |-> links'[l].log]
           open2 == {players'[i].clientLink : i \in {j \in DOMAIN players' : TakesPart(j)'}}
           news == SubSeq(history', Len(history) + 1, Len(history'))
<1>1. /\ links \in Seq(Link) /\ DOMAIN links = 1..Len(links) /\ Len(links) \in Nat
      /\ history \in Seq(Entry)
  BY StateFacts
<1>2. /\ links' \in Seq(Link) /\ DOMAIN links' = 1..Len(links') /\ Len(links') \in Nat
      /\ history' \in Seq(Entry)
  BY DEF IndInv, Shapes
<1>3. /\ IsPrefix(history, history') /\ news = ms
      /\ \A l \in DOMAIN links : IsPrefix(links[l].log, history) => IsPrefix(links[l].log, links[l].log \o ms)
  <2>1. IsPrefix(history, history)
    BY <1>1 DEF IsPrefix
  <2>2. IsPrefix(history, history')
    BY <1>1, <2>1, PrefixGrows
  <2>3. news = ms
    BY <1>1, NewsFacts
  <2>4. ASSUME NEW l \in DOMAIN links
        PROVE  IsPrefix(links[l].log, links[l].log \o ms)
    <3>1. links[l].log \in Seq(Entry) /\ Len(links[l].log) \in Nat
      BY <1>1, LinkFacts
    <3>2. IsPrefix(links[l].log, links[l].log)
      BY <3>1 DEF IsPrefix
    <3> QED
      BY <3>1, <3>2, PrefixGrows
  <2> QED
    BY <2>2, <2>3, <2>4
<1>4. \A l \in open : l \in DOMAIN links /\ links[l].log = history
  BY TakesPartFacts
<1>5. \A l \in open2 : l \in DOMAIN links' /\ links'[l].log = history'
  <2>1. ASSUME NEW i \in DOMAIN players', TakesPart(i)'
        PROVE  players'[i].clientLink \in DOMAIN links'
               /\ links'[players'[i].clientLink].log = history'
    <3>1. /\ players'[i].myState \in {"CONNECTED", "INGAME"}
          /\ ~links'[players'[i].clientLink].adopted
      BY <2>1 DEF TakesPart
    <3>2. players'[i].clientLink \in DOMAIN links'
      BY <3>1 DEF IndInv, SeatInv
    <3>3. Spoken(players', players'[i].clientLink)
      BY <3>1 DEF Spoken
    <3>4. StreamInv(links', players', history', players'[i].clientLink)
      BY <3>2 DEF IndInv, LinkInv
    <3> QED
      BY <3>1, <3>2, <3>3, <3>4 DEF StreamInv
  <2> QED
    BY <2>1
<1>6. \A l \in open2 : l \in open \/ l \notin DOMAIN links
  BY DEF OpenKept
<1>7. ASSUME NEW l \in DOMAIN links, Spoken(players, l), ~links[l].adopted
      PROVE  l \in open
  <2>1. /\ links[l].seat \in DOMAIN players /\ players[links[l].seat].clientLink = l
        /\ TakesPart(links[l].seat)
    BY <1>7, SpokenFacts
  <2> QED
    BY <2>1
<1>8. DOMAIN links \subseteq DOMAIN links'
  <2>1. PICK m, n : m = Len(links) /\ n = Len(links')
    OBVIOUS
  <2>2. n = m \/ n = m + 1
    BY <2>1
  <2>3. m \in Nat /\ n \in Nat /\ DOMAIN links = 1..m /\ DOMAIN links' = 1..n
    BY <1>1, <1>2, <2>1
  <2>4. 1..m \subseteq 1..n
    BY <2>2, <2>3
  <2> QED
    BY <2>3, <2>4
<1>9. \A l \in DOMAIN links' : IsPrefix(new[l], history')
  BY DEF IndInv, LinkInv, StreamInv
<1>10. DOMAIN streams = DOMAIN links /\ DOMAIN new = DOMAIN links'
       /\ (\A l \in DOMAIN links : streams[l] = links[l].log)
       /\ \A l \in DOMAIN links' : new[l] = links'[l].log
  OBVIOUS
<1>11. Len(streams) = Len(links) /\ Len(new) = Len(links')
  <2>1. Len(streams) = Len(links)
    BY <1>1, LogsFacts
  <2>2. Len(new) = Len(links')
    BY <1>2, LogsFacts
  <2> QED
    BY <2>1, <2>2
<1> HIDE DEF open, open2, news
<1>12. /\ IsPrefix(history, history')
       /\ open2 \ open \subseteq DOMAIN new \ DOMAIN streams
       /\ DOMAIN new = DOMAIN streams \/ (Len(new) = Len(streams) + 1 /\ Last(new) = history')
       /\ \A l \in DOMAIN streams :
             /\ l \notin open => new[l] = streams[l]
             /\ l \in open => IsPrefix(streams[l], new[l]) /\ IsPrefix(new[l], streams[l] \o news)
             /\ l \in open2 => new[l] = streams[l] \o news
  <2>1. open2 \ open \subseteq DOMAIN new \ DOMAIN streams
    BY <1>5, <1>6, <1>10
  <2>2. DOMAIN new = DOMAIN streams \/ (Len(new) = Len(streams) + 1 /\ Last(new) = history')
    <3>1. CASE Len(links') = Len(links)
      BY <1>1, <1>2, <1>10, <3>1
    <3>2. CASE Len(links') = Len(links) + 1 /\ links'[Len(links) + 1].log = history'
      <4>1. Len(links) + 1 \in DOMAIN links'
        BY <1>1, <1>2, <3>2
      <4>2. Last(new) = new[Len(links) + 1]
        BY <1>11, <3>2 DEF Last
      <4> QED
        BY <1>10, <1>11, <3>2, <4>1, <4>2
    <3> QED
      BY <3>1, <3>2
  <2>3. ASSUME NEW l \in DOMAIN links
        PROVE  /\ l \notin open => new[l] = streams[l]
               /\ l \in open => IsPrefix(streams[l], new[l]) /\ IsPrefix(new[l], streams[l] \o news)
               /\ l \in open2 => new[l] = streams[l] \o news
    <3>1. LogKept(l) /\ l \in DOMAIN links'
      BY <1>8
    <3>2. l \notin open => new[l] = streams[l]
      BY <1>7, <1>10, <3>1 DEF LogKept
    <3>3. ASSUME l \in open
          PROVE  IsPrefix(streams[l], new[l]) /\ IsPrefix(new[l], streams[l] \o news)
      <4>1. streams[l] = history /\ streams[l] \o news = history'
        BY <1>3, <1>4, <1>10, <3>3
      <4>2. IsPrefix(history, history)
        BY <1>1 DEF IsPrefix
      <4>3. IsPrefix(history, new[l])
        BY <1>10, <3>1, <4>1, <4>2 DEF LogKept
      <4> QED
        BY <1>9, <3>1, <4>1, <4>3
    <3>4. ASSUME l \in open2
          PROVE  new[l] = streams[l] \o news
      BY <1>3, <1>4, <1>5, <1>6, <1>10, <3>1, <3>4
    <3> QED
      BY <3>2, <3>3, <3>4
  <2> QED
    BY <1>3, <1>10, <2>1, <2>2, <2>3
<1>13. /\ \A a, b : Log!IsPrefix(a, b) <=> IsPrefix(a, b)
       /\ \A a : Log!Last(a) = Last(a)
  BY DEF Log!IsPrefix, IsPrefix, Log!Last, Last
<1> QED
  BY <1>12, <1>13 DEF Log!Next, open, open2, news

\* Sending to all, by which nobody joins or leaves, is such a step.
LEMMA SendingStep ==
    ASSUME IndInv, IndInv', NEW m \in Entry, history' = history \o <<m>>,
           links' = Sent(links, players, <<m>>), DOMAIN players' = DOMAIN players,
           \A j \in DOMAIN players :
              /\ players'[j].clientLink = players[j].clientLink
              /\ players'[j].myState \in {"CONNECTED", "INGAME"} =>
                    players[j].myState \in {"CONNECTED", "INGAME"}
    PROVE  Log!Next
<1> DEFINE ms == <<m>>
<1>1. /\ links \in Seq(Link) /\ history \in Seq(Entry) /\ ms \in Seq(Entry)
      /\ DOMAIN links = 1..Len(links)
  BY StateFacts
<1> HIDE DEF ms
<1>2. /\ Len(links') = Len(links) /\ DOMAIN links' = DOMAIN links
      /\ \A l \in DOMAIN links : Receives(links[l], links'[l], ms, Spoken(players, l))
  BY <1>1, SentFacts DEF ms
<1>3. ASSUME NEW l \in DOMAIN links
      PROVE  LogKept(l)
  <2>1. StreamInv(links, players, history, l)
    BY DEF IndInv, LinkInv
  <2>2. StreamInv(Sent(links, players, ms), players, history \o ms, l)
    BY <1>1, <2>1, SentStreams
  <2>3. ~(Spoken(players, l) /\ ~links[l].adopted) => Sent(links, players, ms)[l].log = links[l].log
    BY <1>1, <2>1, <2>2, SentStreams
  <2>4. links'[l].adopted = links[l].adopted
    BY <1>2 DEF Receives
  <2>5. CASE Spoken(players, l) /\ ~links[l].adopted
    <3>1. links'[l].log = history'
      BY <2>2, <2>4, <2>5 DEF StreamInv, ms
    <3>2. IsPrefix(history, history)
      BY <1>1 DEF IsPrefix
    <3>3. IsPrefix(history, history \o ms)
      BY <1>1, <3>2, PrefixGrows
    <3> QED
      BY <2>5, <3>1, <3>3 DEF LogKept, ms
  <2>6. CASE ~(Spoken(players, l) /\ ~links[l].adopted)
    BY <2>3, <2>6 DEF LogKept, ms
  <2> QED
    BY <2>5, <2>6
<1>4. OpenKept
  <2>1. ASSUME NEW j \in DOMAIN players, TakesPart(j)'
        PROVE  TakesPart(j)
    <3>1. players[j].myState \in {"CONNECTED", "INGAME"} /\ players'[j].clientLink = players[j].clientLink
      BY <2>1 DEF TakesPart
    <3>2. players[j].clientLink \in DOMAIN links
      BY <3>1 DEF IndInv, SeatInv
    <3>3. links'[players[j].clientLink].adopted = links[players[j].clientLink].adopted
      BY <1>2, <3>2 DEF Receives
    <3> QED
      BY <2>1, <3>1, <3>3 DEF TakesPart
  <2> QED
    BY <2>1 DEF OpenKept
<1> QED
  BY <1>1, <1>2, <1>3, <1>4, LogStep DEF ms

\* So is leaving,
LEMMA LeavingStep ==
    ASSUME IndInv, IndInv', NEW i \in DOMAIN players, NEW flush \in BOOLEAN,
           players[i].clientLink # NoLink, Leave(i, flush)
    PROVE  Log!Next
<1> DEFINE ms == <<Msg("PlayerLeft", i)>>
<1>1. /\ players \in Seq(Participant) /\ links \in Seq(Link) /\ history \in Seq(Entry)
      /\ DOMAIN links = 1..Len(links) /\ Len(links) \in Nat /\ i \in Nat /\ players[i] \in Participant
  BY StateFacts
<1>2. ms \in Seq(Entry)
  BY <1>1, MsgFacts DEF Types
<1>3. /\ links' \in Seq(Link) /\ DOMAIN links' = DOMAIN links
      /\ \A l \in DOMAIN links : links'[l].adopted = links[l].adopted
                                 /\ links'[l].log = Sent(links, players, ms)[l].log
  BY LeaveLinks
<1>4. history' = history \o ms /\ players' = [players EXCEPT ![i] = Killed(players[i], flush)]
  BY DEF Leave, Record
<1> HIDE DEF ms
<1>5. ASSUME NEW l \in DOMAIN links
      PROVE  LogKept(l)
  <2>1. StreamInv(links, players, history, l)
    BY DEF IndInv, LinkInv
  <2>2. StreamInv(Sent(links, players, ms), players, history \o ms, l)
    BY <1>1, <1>2, <2>1, SentStreams
  <2>3. ~(Spoken(players, l) /\ ~links[l].adopted) => Sent(links, players, ms)[l].log = links[l].log
    BY <1>1, <1>2, <2>1, <2>2, SentStreams
  <2>4. Receives(links[l], Sent(links, players, ms)[l], ms, Spoken(players, l))
    BY <1>1, <1>2, SentFacts
  <2>5. CASE Spoken(players, l) /\ ~links[l].adopted
    <3>1. links'[l].log = history \o ms
      BY <1>3, <2>2, <2>4, <2>5 DEF StreamInv, Receives
    <3>2. IsPrefix(history, history)
      BY <1>1 DEF IsPrefix
    <3>3. IsPrefix(history, history \o ms)
      BY <1>1, <1>2, <3>2, PrefixGrows
    <3> QED
      BY <2>5, <3>1, <3>3 DEF LogKept
  <2>6. CASE ~(Spoken(players, l) /\ ~links[l].adopted)
    BY <1>3, <2>3, <2>6 DEF LogKept
  <2> QED
    BY <2>5, <2>6
<1>6. Len(links') = Len(links)
  BY <1>1, <1>3
<1>7. OpenKept
  <2>1. LET q == Killed(players[i], flush) IN
           q \in Participant /\ q.myState \in {"DISCONNECTING", "DISCONNECTED"}
    BY <1>1, KilledFacts
  <2>2. /\ DOMAIN players' = DOMAIN players /\ players'[i].myState \in {"DISCONNECTING", "DISCONNECTED"}
        /\ \A j \in DOMAIN players : j # i => players'[j] = players[j]
    BY <1>1, <1>4, <2>1, SeatChanged
  <2>3. ASSUME NEW j \in DOMAIN players, TakesPart(j)'
        PROVE  TakesPart(j) /\ players'[j].clientLink = players[j].clientLink
    <3>1. j # i
      BY <2>2, <2>3 DEF TakesPart
    <3>2. players'[j] = players[j] /\ players[j].myState \in {"CONNECTED", "INGAME"}
      BY <2>2, <2>3, <3>1 DEF TakesPart
    <3>3. players[j].clientLink \in DOMAIN links
      BY <3>2 DEF IndInv, SeatInv
    <3> QED
      BY <1>3, <2>3, <3>2, <3>3 DEF TakesPart
  <2> QED
    BY <2>2, <2>3 DEF OpenKept
<1> QED
  BY <1>2, <1>4, <1>5, <1>6, <1>7, LogStep

\* ... joining,
LEMMA JoiningStep ==
    ASSUME IndInv, IndInv', NEW n \in Names, NEW i, NEW pl, NEW pre, NEW client \in BOOLEAN,
           Prepared(pl, i, pre), Establish(n, i, pl, pre, client), UNCHANGED <<config, game>>,
           packetCache = history, Cached(canReconnect, gameHasStarted),
           canReconnect => canReconnect'
    PROVE  Log!Next
<1>0. PICK L : L = Len(links) + 1
  OBVIOUS
<1>1. /\ links \in Seq(Link) /\ DOMAIN links = 1..Len(links) /\ Len(links) \in Nat
      /\ history \in Seq(Entry)
  BY StateFacts
<1>2. /\ pl \in Seq(Participant) /\ i \in DOMAIN pl /\ pre \in Seq(Entry)
  BY DEF Prepared
<1>3. /\ CacheInv' /\ packetCache' = history' /\ history' \in Seq(Entry)
      /\ history' = history \o (pre \o Joins(i, pl[i]))
      /\ history' = (history \o pre) \o Joins(i, pl[i])
      /\ history \o pre \in Seq(Entry) /\ Joins(i, pl[i]) \in Seq(Entry)
  BY EstablishHistory
<1> DEFINE ms == pre \o Joins(i, pl[i])
<1>13. history' = history \o ms
  BY <1>3
<1>4. ms \in Seq(Entry)
  BY <1>2, <1>3
<1> HIDE DEF ms
<1>5. /\ DOMAIN players' = DOMAIN pl
      /\ \A j \in DOMAIN pl : j # i => players'[j] = pl[j]
      /\ players'[i].clientLink = L
  BY <1>0, <1>1, <1>2, EstablishSeats
<1>6. /\ Len(links') = L
      /\ \A l \in DOMAIN links :
           /\ links'[l].adopted = links[l].adopted
           /\ \/ links'[l].log = links[l].log
              \/ Spoken(players, l) /\ ~links[l].adopted
                 /\ links'[l].log \in {history \o pre, history'}
  BY <1>0, <1>3, EstablishLinks
<1>7. links'[L].log = history'
  <2>1. NewLink(links'[Len(links) + 1], i, pl[i], history')
    BY <1>3, EstablishLinks
  <2> QED
    BY <1>0, <2>1 DEF NewLink
<1>8. IsPrefix(history, history \o pre) /\ IsPrefix(history, history')
  <2>1. IsPrefix(history, history)
    BY <1>1 DEF IsPrefix
  <2>2. IsPrefix(history, history \o pre)
    BY <1>1, <1>2, <2>1, PrefixGrows
  <2>3. IsPrefix(history, history \o ms)
    BY <1>1, <1>4, <2>1, PrefixGrows
  <2> QED
    BY <1>3, <1>13, <2>2, <2>3
<1>9. \A l \in DOMAIN links : LogKept(l)
  BY <1>6, <1>8 DEF LogKept
<1>10. L \notin DOMAIN links
  BY <1>0, <1>1
<1>11. OpenKept
  <2>1. ASSUME NEW j \in DOMAIN players', TakesPart(j)', players'[j].clientLink \in DOMAIN links
        PROVE  /\ j \in DOMAIN players /\ TakesPart(j)
               /\ players'[j].clientLink = players[j].clientLink
    <3>1. j # i
      BY <1>5, <1>10, <2>1
    <3>2. j \in DOMAIN players /\ players'[j] = players[j]
      BY <1>5, <3>1 DEF Prepared
    <3> QED
      BY <1>6, <2>1, <3>2 DEF TakesPart
  <2> QED
    BY <2>1 DEF OpenKept
<1> QED
  BY <1>0, <1>3, <1>13, <1>4, <1>6, <1>7, <1>9, <1>11, LogStep

\* ... and whatever leaves the logs alone and opens none.
LEMMA SilentStep ==
    ASSUME IndInv, IndInv', history' = history, DOMAIN links' = DOMAIN links,
           \A l \in DOMAIN links : links'[l].log = links[l].log, OpenKept
    PROVE  Log!Next
<1>1. <<>> \in Seq(Entry) /\ history' = history \o <<>> /\ Len(links') = Len(links)
  <2>1. links' \in Seq(Link) /\ links \in Seq(Link) /\ history \in Seq(Entry)
    BY DEF IndInv, Shapes
  <2> QED
    BY <2>1
<1> QED
  BY <1>1, LogStep DEF LogKept

\* The ways to join, among them the one that opens no stream: the link that is handed to a
\* second client
LEMMA BindStep ==
    ASSUME IndInv, IndInv', NEW n \in Names, BindConnection(n)
    PROVE  Log!Next
<1>1. CASE BindKnown(n)
  <2>1. MayConnect(n) /\ SetCanReconnect(n) /\ UNCHANGED <<config, game>>
    BY <1>1 DEF BindKnown
  <2>2. PICK i \in Known(n) : players[i].clientLink = NoLink /\ Establish(n, i, players, <<>>, TRUE)
    BY <1>1 DEF BindKnown
  <2>3. Prepared(players, i, <<>>)
    BY <2>2, PreparedKnown DEF Known
  <2> QED
    BY <2>1, <2>2, <2>3, CacheComplete, ReconnectFacts, JoiningStep
<1>2. CASE BindReplacing(n)
  <2>1. MayConnect(n) /\ SetCanReconnect(n) /\ UNCHANGED <<config, game>>
    BY <1>2 DEF BindReplacing
  <2>2. PICK i \in Known(n) :
           Establish(n, i, [players EXCEPT ![i] = Killed([@ EXCEPT !.clientLink = NoLink], FALSE)],
                     <<Msg("PlayerLeft", i)>>, TRUE)
    BY <1>2 DEF BindReplacing
  <2> DEFINE pl == [players EXCEPT ![i] = Killed([@ EXCEPT !.clientLink = NoLink], FALSE)]
             pre == <<Msg("PlayerLeft", i)>>
  <2>3. Prepared(pl, i, pre) /\ Establish(n, i, pl, pre, TRUE)
    BY <2>2, PreparedReplacing DEF Known
  <2> HIDE DEF pl, pre
  <2> QED
    BY <2>1, <2>3, CacheComplete, ReconnectFacts, JoiningStep
<1>3. CASE BindLingering(n)
  <2>1. PICK i \in Known(n) :
           /\ players[i].myState = "DISCONNECTING"
           /\ players' = [players EXCEPT ![i].myState = "CONNECTED", ![i].client = TRUE]
           /\ links' = [links EXCEPT ![players[i].clientLink].adopted = TRUE]
    BY <1>3 DEF BindLingering
  <2>2. i \in DOMAIN players
    BY DEF Known
  <2>3. /\ history' = history /\ DOMAIN links' = DOMAIN links
        /\ \A l \in DOMAIN links : links'[l].log = links[l].log
        /\ \A l \in DOMAIN links : l # players[i].clientLink => links'[l] = links[l]
    <3>1. links \in Seq(Link) /\ \A l \in DOMAIN links : links[l] \in Link
      BY StateFacts, LinkFacts
    <3>2. \A link \in Link : [link EXCEPT !.adopted = TRUE].log = link.log
      BY DEF Link
    <3> QED
      BY <1>3, <2>1, <3>1, <3>2 DEF BindLingering
  <2>4. /\ DOMAIN players' = DOMAIN players /\ players'[i].clientLink = players[i].clientLink
        /\ \A j \in DOMAIN players : j # i => players'[j] = players[j]
    <3>1. players[i] \in Participant
      BY <2>2, StateFacts, PlayerFacts
    <3> QED
      BY <2>1, <2>2, <3>1 DEF Participant
  <2>5. players[i].clientLink \in DOMAIN links /\ links'[players[i].clientLink].adopted
    <3>1. players[i].clientLink \in DOMAIN links
      BY <2>1, <2>2 DEF IndInv, SeatInv
    <3>2. links[players[i].clientLink] \in Link
      BY <3>1, StateFacts, LinkFacts
    <3> QED
      BY <2>1, <3>1, <3>2 DEF Link
  <2>6. OpenKept
    <3>1. ASSUME NEW j \in DOMAIN players, TakesPart(j)'
          PROVE  TakesPart(j) /\ players'[j].clientLink = players[j].clientLink
      <4>1. j # i
        BY <2>4, <2>5, <3>1 DEF TakesPart
      <4>2. players'[j] = players[j]
        BY <2>4, <4>1
      <4>3. players[j].clientLink \in DOMAIN links /\ players[j].clientLink # NoLink
        BY <3>1, <4>2 DEF TakesPart, IndInv, SeatInv
      <4>4. players[j].clientLink # players[i].clientLink
        BY <2>2, <4>1, <4>3, OneSeat
      <4> QED
        BY <2>3, <3>1, <4>2, <4>3, <4>4 DEF TakesPart
    <3> QED
      BY <2>4, <3>1 DEF OpenKept
  <2> QED
    BY <2>3, <2>6, SilentStep
<1>4. ASSUME NEW client \in BOOLEAN, MayConnect(n) \/ MayReconnect(n), AddAdditionalUser(n, client)
      PROVE  Log!Next
  <2> DEFINE i == Len(players) + 1
             pl == Append(players, Seat(Anonymous, TRUE, 0, TRUE))
             pre == <<Msg("CreateNewPlayer", i)>>
  <2>1. SetCanReconnect(n) /\ UNCHANGED <<config, game>> /\ Establish(n, i, pl, pre, client)
    BY <1>4 DEF AddAdditionalUser
  <2>2. Prepared(pl, i, pre)
    BY PreparedUnknown
  <2> HIDE DEF i, pl, pre
  <2> QED
    BY <1>4, <2>1, <2>2, CacheComplete, ReconnectFacts, JoiningStep
<1>5. CASE Reject(n)
  <2>1. history' = history /\ links' = links /\ players' = players
    BY <1>5 DEF Reject
  <2> QED
    BY <2>1, SilentStep DEF OpenKept, TakesPart
<1> QED
  BY <1>1, <1>2, <1>3, <1>4, <1>5 DEF BindConnection, BindUnknown, Reconnect

\* What the server does with the messages of a client
LEMMA ReadStep ==
    ASSUME IndInv, IndInv', NEW i \in DOMAIN players, ServerReadNet(i)
    PROVE  Log!Next
<1>1. i \in Nat
  BY StateFacts
<1>2. players[i] \in Participant
  BY StateFacts, PlayerFacts
<1>3. CASE PlayerName(i)
  <2> DEFINE m == Msg("PlayerName", i)
  <2>1. /\ players[i].myState = "CONNECTED" /\ players' = [players EXCEPT ![i].myState = "INGAME"]
        /\ history' = history \o <<m>> /\ links' = Sent(links, players, <<m>>)
    BY <1>3 DEF PlayerName, Broadcast, Record
  <2>2. m \in Entry
    BY <1>1, MsgFacts DEF Types
  <2>3. /\ DOMAIN players' = DOMAIN players /\ players'[i].clientLink = players[i].clientLink
        /\ \A j \in DOMAIN players : j # i => players'[j] = players[j]
    BY <1>2, <2>1 DEF Participant
  <2> HIDE DEF m
  <2> QED
    BY <2>1, <2>2, <2>3, SendingStep
<1>4. ASSUME NEW ready \in BOOLEAN, StartPos(i, ready)
      PROVE  Log!Next
  <2> DEFINE m == Msg("StartPos", i)
  <2>1. /\ players' = [players EXCEPT ![i].readyToStart = ready]
        /\ history' = history \o <<m>> /\ links' = Sent(links, players, <<m>>)
    BY <1>4 DEF StartPos, Broadcast, Record
  <2>2. m \in Entry
    BY <1>1, MsgFacts DEF Types
  <2>3. /\ DOMAIN players' = DOMAIN players
        /\ players'[i].clientLink = players[i].clientLink /\ players'[i].myState = players[i].myState
        /\ \A j \in DOMAIN players : j # i => players'[j] = players[j]
    BY <1>2, <2>1 DEF Participant
  <2> HIDE DEF m
  <2> QED
    BY <2>1, <2>2, <2>3, SendingStep
<1>5. CASE Quit(i)
  BY <1>5, LeavingStep DEF Quit, Reads, Connected
<1>6. CASE KickPlayer(i)
  BY <1>6, LeavingStep DEF KickPlayer, Connected
<1>7. CASE Timeout(i)
  BY <1>7, LeavingStep DEF Timeout
<1> QED
  BY <1>3, <1>4, <1>5, <1>6, <1>7 DEF ServerReadNet

\* What the server does by itself
LEMMA UpdateStep ==
    ASSUME IndInv, IndInv', Update
    PROVE  Log!Next
<1>1. ASSUME NEW type \in Types, history' = history \o <<Msg(type, NoSeat)>>,
             links' = Sent(links, players, <<Msg(type, NoSeat)>>), players' = players
      PROVE  Log!Next
  <2> DEFINE m == Msg(type, NoSeat)
  <2>1. m \in Entry
    BY MsgFacts DEF NoSeat
  <2>2. history' = history \o <<m>> /\ links' = Sent(links, players, <<m>>)
    BY <1>1
  <2> HIDE DEF m
  <2> QED
    BY <1>1, <2>1, <2>2, SendingStep
<1>2. CASE \E late, forced \in BOOLEAN : CheckForGameStart(late, forced)
  <2>1. /\ history' = history \o <<Msg("StartPlaying", NoSeat)>> /\ players' = players
        /\ links' = Sent(links, players, <<Msg("StartPlaying", NoSeat)>>)
    BY <1>2 DEF CheckForGameStart, Broadcast, Record
  <2> QED
    BY <1>1, <2>1 DEF Types
<1>3. CASE StartGame
  <2>1. /\ history' = history \o <<Msg("StartGame", NoSeat)>> /\ players' = players
        /\ links' = Sent(links, players, <<Msg("StartGame", NoSeat)>>)
    BY <1>3 DEF StartGame
  <2> QED
    BY <1>1, <2>1 DEF Types
<1>4. CASE Message
  <2>1. /\ history' = history \o <<Msg("Message", NoSeat)>> /\ players' = players
        /\ links' = Sent(links, players, <<Msg("Message", NoSeat)>>)
    BY <1>4 DEF Message, Broadcast, Record
  <2> QED
    BY <1>1, <2>1 DEF Types
<1>5. CASE NoClientsExit
  <2>1. history' = history /\ links' = links /\ players' = players
    BY <1>5 DEF NoClientsExit
  <2> QED
    BY <2>1, SilentStep DEF OpenKept, TakesPart
<1>6. ASSUME NEW i \in DOMAIN players, CheckForExpiredConnection(i)
      PROVE  Log!Next
  <2>1. /\ history' = history /\ links' = links
        /\ players' = [players EXCEPT ![i].myState = "DISCONNECTED", ![i].clientLink = NoLink,
                                      ![i].client = FALSE]
    BY <1>6 DEF CheckForExpiredConnection
  <2>2. players[i] \in Participant
    BY StateFacts, PlayerFacts
  <2>3. /\ DOMAIN players' = DOMAIN players /\ players'[i].myState = "DISCONNECTED"
        /\ \A j \in DOMAIN players : j # i => players'[j] = players[j]
    BY <2>1, <2>2 DEF Participant
  <2>4. OpenKept
    BY <2>1, <2>3 DEF OpenKept, TakesPart
  <2> QED
    BY <2>1, <2>4, SilentStep
<1> QED
  BY <1>2, <1>3, <1>4, <1>5, <1>6 DEF Update

\* Those who join read the same log: the sessions implement JoinedLog (GameServer::
\* Broadcast, BindConnection).
THEOREM Refinement == Spec => ImplementsJoinedLog
<1>1. Init => Log!Init
  <2> SUFFICES ASSUME Init
               PROVE  Log!Init
    OBVIOUS
  <2>1. links = <<>> /\ history = <<>>
    BY DEF Init
  <2>2. \A i \in DOMAIN players : players[i].myState = "UNCONNECTED"
    BY DEF Init, Seat
  <2>3. {i \in DOMAIN players : TakesPart(i)} = {}
    BY <2>2 DEF TakesPart
  <2>4. [l \in DOMAIN links |-> links[l].log] = <<>>
    BY <2>1
  <2>5. {players[i].clientLink : i \in {j \in DOMAIN players : TakesPart(j)}} = {}
    BY <2>3
  <2> QED
    BY <2>1, <2>4, <2>5 DEF Log!Init
<1>2. ASSUME IndInv, IndInv', [Next]_vars
      PROVE  [Log!Next]_<<history, [l \in DOMAIN links |-> links[l].log],
                          {players[i].clientLink : i \in {j \in DOMAIN players : TakesPart(j)}}>>
  <2>1. ASSUME NEW n \in Names, BindConnection(n)
        PROVE  Log!Next
    BY <1>2, <2>1, BindStep
  <2>2. ASSUME NEW i \in DOMAIN players, ServerReadNet(i)
        PROVE  Log!Next
    BY <1>2, <2>2, ReadStep
  <2>3. ASSUME NEW i \in DOMAIN players, ClientLost(i)
        PROVE  Log!Next
    <3>1. /\ history' = history /\ links' = links
          /\ players' = [players EXCEPT ![i].client = FALSE]
      BY <2>3 DEF ClientLost
    <3>2. players[i] \in Participant
      BY <1>2, StateFacts, PlayerFacts
    <3>3. /\ DOMAIN players' = DOMAIN players
          /\ players'[i].myState = players[i].myState /\ players'[i].clientLink = players[i].clientLink
          /\ \A j \in DOMAIN players : j # i => players'[j] = players[j]
      BY <3>1, <3>2 DEF Participant
    <3>4. OpenKept
      BY <3>1, <3>3 DEF OpenKept, TakesPart
    <3> QED
      BY <1>2, <3>1, <3>4, SilentStep
  <2>4. CASE Update
    BY <1>2, <2>4, UpdateStep
  <2>5. CASE UNCHANGED vars
    <3>1. history' = history /\ links' = links /\ players' = players
      BY <2>5 DEF vars
    <3> QED
      BY <1>2, <3>1, SilentStep DEF OpenKept, TakesPart
  <2> QED
    BY <1>2, <2>1, <2>2, <2>3, <2>4, <2>5 DEF Next
<1> QED
  BY <1>1, <1>2, Invariance, PTL DEF Spec, ImplementsJoinedLog, Log!Spec
=============================================================================
