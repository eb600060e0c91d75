------------------------- MODULE MCGameServerTeams -------------------------
EXTENDS GameServerTeams

MCTeams == {1, 2}
MCTeamOf == [p \in {1, 2} |-> 1]
MCLeaderOf == [t \in {1, 2} |-> 1]
NoAIs == <<>>
OneAI == <<[team |-> 2, host |-> 2]>>
TwoAIs == <<[team |-> 2, host |-> 1], [team |-> 2, host |-> 2]>>
=============================================================================
