SPECIFICATION Spec
CONSTANTS
    NumPlayers = 2
    Teams <- MCTeams
    TeamOf <- MCTeamOf
    LeaderOf <- MCLeaderOf
    Host = 1
    AIs <- NoAIs
    MaxAIs = 2
    MaxRequests = 3
    MaxDeaths = 1
CHECK_DEADLOCK FALSE
INVARIANT CreationRemembered
