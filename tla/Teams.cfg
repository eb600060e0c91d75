SPECIFICATION Spec
CONSTANTS
    NumPlayers = 2
    Teams <- MCTeams
    TeamOf <- MCTeamOf
    LeaderOf <- MCLeaderOf
    Host = 1
    AIs <- TwoAIs
    MaxAIs = 3
    MaxRequests = 2
    MaxDeaths = 1
CHECK_DEADLOCK FALSE
INVARIANTS TypeOK StateChangeFindsAI CopiesAgree AliveRuns LiveAIsHaveLinks
